---- MODULE Spec2Model ----
(***************************************************************************)
(* Nebula: content-addressable chunk store (storage/store.rs), chunker     *)
(* (storage/chunk.rs), content address (content/address.rs), file registry *)
(* (file/registry.rs) and node facade (node.rs).                           *)
(*                                                                         *)
(* Byte strings are sequences over Byte.  Strings (address text, paths)    *)
(* are sequences of one-character strings.  A 32-byte digest is scaled to  *)
(* one byte (two hex digits); the digest functions are injective on the    *)
(* bounded inputs, which is the collision-resistance assumption made       *)
(* explicit.                                                               *)
(***************************************************************************)
EXTENDS Integers, Sequences, FiniteSets, TLC

\* ------------------------------------------------------------------ bounds
MaxLen == 2         \* longest byte string handed to an operation
MaxCalls == 2       \* content-store calls made in one behaviour
MaxIngests == 1     \* ingests made in one behaviour with failures and kills
MaxIdentities == 2  \* node ids drawn by NodeMetadata::new in one behaviour
MaxSize == 7        \* largest size in a chunker configuration
MaxInput == 4       \* longest input given to the chunker alone
MaxHex == 4         \* longest hex part of a string given to from_hex
MaxEdit == 8        \* longest input of which an edited copy is chunked too

\* a two-valued byte alphabet
Byte == {0, 1}
Data == UNION {[1..n -> Byte] : n \in 0..MaxLen}
Threads == {"t1", "t2"}
MainThread == "t1"

Min(a, b) == IF a < b THEN a ELSE b

\* ------------------------------------------------- content/address.rs
HashAlgorithm == {"Sha256", "Blake3"}

\* Bijective base-3 numeration of the bytes: injective on byte strings.
RECURSIVE Sha256(_)
Sha256(data) ==
    IF data = <<>> THEN 0
    ELSE Sha256(SubSeq(data, 1, Len(data) - 1)) * (Cardinality(Byte) + 1)
         + data[Len(data)] + 1

\* A second injective digest: the same numeration read from the other end.
RECURSIVE Blake3(_)
Blake3(data) ==
    IF data = <<>> THEN 0
    ELSE Blake3(Tail(data)) * (Cardinality(Byte) + 1) + Head(data) + 1

from_data_with_algorithm(data, algorithm) ==
    [hash |-> IF algorithm = "Sha256" THEN Sha256(data) ELSE Blake3(data),
     algorithm |-> algorithm]

from_data(data) == from_data_with_algorithm(data, "Sha256")

HexDigits ==
    <<"0", "1", "2", "3", "4", "5", "6", "7",
      "8", "9", "a", "b", "c", "d", "e", "f">>

\* mutant: the two digits of a byte in the other order
HexEncodeSwapped(n) == <<HexDigits[(n % 16) + 1], HexDigits[(n \div 16) + 1]>>

\* hex::encode of the (one-byte) digest
HexEncode(n) == <<HexDigits[(n \div 16) + 1], HexDigits[(n % 16) + 1]>>

AlgorithmName(algorithm) ==
    IF algorithm = "Sha256" THEN <<"s", "h", "a", "2", "5", "6">>
    ELSE <<"b", "l", "a", "k", "e", "3">>

to_hex(address) ==
    AlgorithmName(address.algorithm) \o <<":">> \o HexEncode(address.hash)

\* the digest is [u8; 32]; here one byte, written as two hex digits
HashLen == 1

\* the value of a hex digit, either case, or -1
HexVal(c) ==
    LET upper == <<"A", "B", "C", "D", "E", "F">>
    IN  IF \E i \in DOMAIN HexDigits : HexDigits[i] = c
        THEN (CHOOSE i \in DOMAIN HexDigits : HexDigits[i] = c) - 1
        ELSE IF \E i \in DOMAIN upper : upper[i] = c
        THEN (CHOOSE i \in DOMAIN upper : upper[i] = c) + 9
        ELSE -1

\* hex::decode: an odd length or a character that is no hex digit is an
\* error; otherwise one byte for every two digits
HexDecode(str) ==
    IF Len(str) % 2 # 0 \/ \E i \in DOMAIN str : HexVal(str[i]) = -1
    THEN [ok |-> FALSE, bytes |-> <<>>]
    ELSE [ok |-> TRUE,
          bytes |-> [i \in 1..(Len(str) \div 2) |->
                       HexVal(str[2 * i - 1]) * 16 + HexVal(str[2 * i])]]

\* str::split(':'): the parts between the colons, empty parts included
RECURSIVE SplitColon(_, _)
SplitColon(str, part) ==
    IF str = <<>> THEN <<part>>
    ELSE IF Head(str) = ":" THEN <<part>> \o SplitColon(Tail(str), <<>>)
    ELSE SplitColon(Tail(str), Append(part, Head(str)))

NoAddress == [hash |-> 0, algorithm |-> "Sha256"]

\* mutant: the hex part is decoded before the tag is looked at
from_hex_hex_first(hex_str) ==
    LET parts == SplitColon(hex_str, <<>>)
        fails(e) == [status |-> e, address |-> NoAddress]
    IN  IF Len(parts) # 2 THEN fails("InvalidFormat")
        ELSE IF ~HexDecode(parts[2]).ok THEN fails("InvalidHex")
        ELSE IF parts[1] \notin {AlgorithmName(a) : a \in HashAlgorithm}
        THEN fails("UnsupportedAlgorithm")
        ELSE IF Len(HexDecode(parts[2]).bytes) # HashLen
        THEN fails("InvalidHashLength")
        ELSE [status |-> "Ok",
              address |-> [hash |-> HexDecode(parts[2]).bytes[1],
                           algorithm |-> CHOOSE a \in HashAlgorithm :
                                             AlgorithmName(a) = parts[1]]]

\* lines 67-90, ContentAddress::from_hex
from_hex(hex_str) ==
    LET parts == SplitColon(hex_str, <<>>)
        fails(e) == [status |-> e, address |-> NoAddress]
    IN  IF Len(parts) # 2 THEN fails("InvalidFormat")
        ELSE IF parts[1] \notin {AlgorithmName(a) : a \in HashAlgorithm}
        THEN fails("UnsupportedAlgorithm")
        ELSE LET algorithm == CHOOSE a \in HashAlgorithm :
                                  AlgorithmName(a) = parts[1]
                 hash_bytes == HexDecode(parts[2])
             IN  IF ~hash_bytes.ok THEN fails("InvalidHex")
                 ELSE IF Len(hash_bytes.bytes) # HashLen
                 THEN fails("InvalidHashLength")
                 ELSE [status |-> "Ok",
                       address |-> [hash |-> hash_bytes.bytes[1],
                                    algorithm |-> algorithm]]

\* ------------------------------------------------- storage/chunk.rs
ChunkNew(data) == [data |-> data, address |-> from_data(data)]

\* mutant: chunks_exact, which leaves out a shorter last slice
RECURSIVE chunk_data_fixed_size_exact(_, _)
chunk_data_fixed_size_exact(data, target_size) ==
    IF Len(data) < target_size THEN <<>>
    ELSE <<ChunkNew(SubSeq(data, 1, target_size))>>
         \o chunk_data_fixed_size_exact(
                SubSeq(data, target_size + 1, Len(data)), target_size)

RECURSIVE chunk_data_fixed_size(_, _)
chunk_data_fixed_size(data, target_size) ==
    IF data = <<>> THEN <<>>
    ELSE LET n == Min(target_size, Len(data))
         IN  <<ChunkNew(SubSeq(data, 1, n))>>
             \o chunk_data_fixed_size(SubSeq(data, n + 1, Len(data)), target_size)

\* Gear table and masks of the rolling hash, scaled to the byte alphabet.
\* Gear[b] is b + 1
GearHash(hash, b) == (hash * 2 + b + 1) % 16
MaskS == 3
MaskL == 1

\* fastcdc cut point: the length of the next chunk of a non-empty source.
RECURSIVE CutScan(_, _, _, _, _)
CutScan(source, index, hash, center, remaining) ==
    IF index >= remaining THEN remaining
    ELSE LET h == GearHash(hash, source[index + 1])
             mask == IF index < center THEN MaskS ELSE MaskL
         IN  IF h % (mask + 1) = 0 THEN index
             ELSE CutScan(source, index + 1, h, center, remaining)

FastCDCCut(source, min_size, avg_size, max_size) ==
    IF Len(source) <= min_size THEN Len(source)
    ELSE LET remaining == Min(Len(source), max_size)
             center == Min(avg_size, remaining)
         IN  CutScan(source, min_size, 0, center, remaining)

\* lines 65-67: the sizes are usize and are passed as u32; the cast keeps
\* the low 32 bits.  The width is scaled with the sizes: U32Modulus stands
\* for 2^32, above every size of ChunkConfig::default().
U32Modulus == 4
AsU32(n) == n % U32Modulus

\* FastCDC::new asserts that the sizes it is given are not below the crate's
\* MINIMUM_MIN (64), AVERAGE_MIN (256) and MAXIMUM_MIN (1024); the default
\* sizes pass.  Scaled like the sizes, keeping their order.
MINIMUM_MIN == 1
AVERAGE_MIN == 2
MAXIMUM_MIN == 3

RECURSIVE chunk_data_fastcdc(_, _)
chunk_data_fastcdc(data, cfg) ==
    IF data = <<>> THEN <<>>
    ELSE LET n == FastCDCCut(data, AsU32(cfg.min_size),
                             AsU32(cfg.target_size), AsU32(cfg.max_size))
         IN  <<ChunkNew(SubSeq(data, 1, n))>>
             \o chunk_data_fastcdc(SubSeq(data, n + 1, Len(data)), cfg)

\* mutant: fixed mode slices by max_size
chunk_data_by_max(data, cfg) ==
    IF data = <<>> THEN <<>>
    ELSE IF cfg.use_content_defined THEN chunk_data_fastcdc(data, cfg)
    ELSE chunk_data_fixed_size(data, cfg.max_size)

\* mutant: the empty input is one empty chunk
chunk_data_empty_chunk(data, cfg) ==
    IF data = <<>> THEN <<ChunkNew(<<>>)>>
    ELSE IF cfg.use_content_defined THEN chunk_data_fastcdc(data, cfg)
    ELSE chunk_data_fixed_size(data, cfg.target_size)

chunk_data(data, cfg) ==
    IF data = <<>> THEN <<>>
    ELSE IF cfg.use_content_defined THEN chunk_data_fastcdc(data, cfg)
    ELSE chunk_data_fixed_size(data, cfg.target_size)

\* lines 49-60 as a call: the chunks returned, or the panic of FastCDC::new
ChunkDataOutcome(data, cfg) ==
    IF /\ data # <<>>
       /\ cfg.use_content_defined
       /\ \/ AsU32(cfg.min_size) < MINIMUM_MIN
          \/ AsU32(cfg.target_size) < AVERAGE_MIN
          \/ AsU32(cfg.max_size) < MAXIMUM_MIN
    THEN [status |-> "Panic", chunks |-> <<>>]
    ELSE [status |-> "Ok", chunks |-> chunk_data(data, cfg)]

\* tests, lines 196-200 and 265-269: the data of the chunks, in order
RECURSIVE reconstructed(_)
reconstructed(chunks) ==
    IF chunks = <<>> THEN <<>>
    ELSE Head(chunks).data \o reconstructed(Tail(chunks))

\* ChunkConfig::default() is 8 KB / 16 KB / 24 KB with CDC; scaled 1 / 2 / 3.
DefaultChunkConfig ==
    [min_size |-> 1, target_size |-> 2, max_size |-> 3,
     use_content_defined |-> TRUE]

ChunkConfigs ==
    {DefaultChunkConfig,
     [min_size |-> 1, target_size |-> 1, max_size |-> 2,
      use_content_defined |-> FALSE]}

\* ------------------------------------------------- storage/store.rs
VARIABLES
    config,     \* ContentStoreConfig: verify_on_read, chunk_config
    dirs,       \* shard directories under objects/
    objects,    \* objects/<subdir>/<filename> -> bytes of the file
    temp,       \* temp/tmp_<nonce> -> bytes of the file
    th,         \* per thread: the frame of the call in progress
    ret,        \* per thread: what its last call returned
    puts,       \* history: (data, address) of every put_chunk that returned Ok
    calls,      \* number of top-level calls made so far
    crashed,    \* history: the process was killed at some point
    corrupted,  \* history: object paths overwritten from outside the store
    node,       \* the process holds a constructed Node
    state,      \* Node.state
    files,      \* FileRegistry.files: file id -> metadata
    registry_file, \* file_registry.json: whether it exists, and its content
    ids,        \* history: the file ids Uuid::new_v4 has produced
    ingested,   \* history: file id -> bytes, for the Ok ingests of this Node
    metadata_file, \* ~/.nebula/node_metadata.json
    node_id,    \* Node.id (0 while no Node is constructed)
    built,      \* history: the ids of the Nodes that Node::new has returned
    drawn,      \* history: how many node ids NodeMetadata::new has drawn
    cmd         \* per thread: the run_command call in progress

storeVars == <<dirs, objects, temp>>
envVars == <<crashed, corrupted>>
registryVars == <<files, registry_file, ids>>
identityVars == <<metadata_file, node_id, built, drawn>>
nodeVars == <<node, state, registryVars, ingested, identityVars, cmd>>

\* chunk_path: first two characters of the address text name the shard
\* directory, the rest is the file name.
chunk_path(address) ==
    LET hash_str == to_hex(address)
    IN  [subdir |-> SubSeq(hash_str, 1, 2),
         filename |-> SubSeq(hash_str, 3, Len(hash_str))]

PathExists(path) == path \in DOMAIN objects

NoFd == [kind |-> "none", nonce |-> 0, path |-> chunk_path(from_data(<<>>))]

NoRet == [op |-> "none", status |-> "none"]

\* file_registry.json: absent, or present with a content (a token sequence)
NoFile == [exists |-> FALSE, content |-> <<>>]

\* A JSON text is written and read as a sequence of tokens: the opening
\* brace, one token per member, the closing brace.
Token(kind, key, value) == [kind |-> kind, key |-> key, value |-> value]
OpenToken == Token("open", <<>>, <<>>)
CloseToken == Token("close", <<>>, <<>>)

\* node.rs lines 66-70, NodeMetadata::save_to_file: the text of the identity
\* file.  A node id is named by the number of the Uuid::new_v4 draw that
\* produced it (two draws never give the same id).
SerializeIdentity(k) ==
    <<OpenToken, Token("entry", <<"id">>, <<k>>), CloseToken>>

\* mutant: no identity file ever loads
load_from_file_never(content) == [status |-> "Json", id |-> 0]

\* node.rs lines 72-76, NodeMetadata::load_from_file
load_from_file(content) ==
    IF /\ Len(content) = 3
       /\ content[1].kind = "open"
       /\ content[2].kind = "entry"
       /\ content[3].kind = "close"
    THEN [status |-> "Ok", id |-> content[2].value[1]]
    ELSE [status |-> "Json", id |-> 0]

\* the output path a retrieval is given, which does not exist before the
\* call: absent, or present with its bytes
NoOut == [exists |-> FALSE, content |-> <<>>]

\* FileMetadata before any is built
NoMeta ==
    [id |-> <<>>, original_name |-> "", chunk_addresses |-> <<>>,
     total_size |-> 0, created_at |-> 0, chunk_count |-> 0]

\* what the caller of put_data knows of its call: whether it repeats a call
\* that failed, the addresses the failed call had stored, and the objects
\* the store held before the first attempt
FirstAttempt(objs) == [retry |-> FALSE, kept |-> <<>>, before |-> objs]

IdleFrame ==
    [pc |-> "idle", op |-> "none", input |-> <<>>, chunks |-> <<>>,
     addresses |-> <<>>, data |-> <<>>, address |-> from_data(<<>>),
     nonce |-> 0, fd |-> NoFd, off |-> 0, wrote |-> FALSE, again |-> FALSE,
     name |-> "", size |-> 0, meta |-> NoMeta, json |-> <<>>,
     pre |-> [files |-> <<>>, disk |-> NoFile], from |-> "",
     attempt |-> FirstAttempt(<<>>)]

\* no run_command is under way
NoCommand == [stage |-> "none", result |-> NoRet]

StoreInit ==
    /\ cmd = [t \in Threads |-> NoCommand]
    /\ dirs = {}
    /\ objects = <<>>
    /\ temp = <<>>
    /\ th = [t \in Threads |-> IdleFrame]
    /\ ret = [t \in Threads |-> NoRet]
    /\ puts = {}
    /\ calls = 0
    /\ crashed = FALSE
    /\ corrupted = {}
    /\ state = "Stopped"
    /\ files = <<>>
    /\ registry_file = NoFile
    /\ ids = {}
    /\ ingested = <<>>

\* a Node constructed over a home directory that had none before
NodeInit ==
    /\ node = TRUE
    /\ node_id = 1
    /\ metadata_file = [exists |-> TRUE, content |-> SerializeIdentity(1)]
    /\ built = {1}
    /\ drawn = 1

Remove(f, k) == [x \in DOMAIN f \ {k} |-> f[x]]

Put(f, k, v) == (k :> v) @@ f

\* write one byte at a file offset (offsets count from 0); a hole left by a
\* truncation is filled with zero bytes
RECURSIVE Zeros(_)
Zeros(n) == IF n <= 0 THEN <<>> ELSE <<0>> \o Zeros(n - 1)

WriteAt(content, off, b) ==
    IF off < Len(content) THEN [content EXCEPT ![off + 1] = b]
    ELSE content \o Zeros(off - Len(content)) \o <<b>>

\* mutant: the integrity check is skipped
get_chunk_noverify(address) ==
    LET path == chunk_path(address)
    IN  IF ~PathExists(path)
        THEN [status |-> "ContentNotFound", address |-> address]
        ELSE [status |-> "Ok", data |-> objects[path]]

\* mutant: Corruption carries the two addresses the wrong way round
get_chunk_swapped(address) ==
    LET path == chunk_path(address)
    IN  IF ~PathExists(path)
        THEN [status |-> "ContentNotFound", address |-> address]
        ELSE LET chunk == ChunkNew(objects[path])
             IN  IF config.verify_on_read /\ chunk.address # address
                 THEN [status |-> "Corruption", expected |-> chunk.address,
                       actual |-> address]
                 ELSE [status |-> "Ok", data |-> chunk.data]

\* ---- ContentStore::get_chunk, has_chunk, get_data, stats (reads)
get_chunk(address) ==
    LET path == chunk_path(address)
    IN  IF ~PathExists(path)
        THEN [status |-> "ContentNotFound", address |-> address]
        ELSE LET chunk == ChunkNew(objects[path])
             IN  IF config.verify_on_read /\ chunk.address # address
                 THEN [status |-> "Corruption", expected |-> address,
                       actual |-> chunk.address]
                 ELSE [status |-> "Ok", data |-> chunk.data]

has_chunk(address) == PathExists(chunk_path(address))

\* mutant: each chunk is put in front of what was read so far
RECURSIVE get_data_from_prepend(_, _)
get_data_from_prepend(addresses, data) ==
    IF addresses = <<>> THEN [status |-> "Ok", data |-> data]
    ELSE LET r == get_chunk(Head(addresses))
         IN  IF r.status # "Ok" THEN r
             ELSE get_data_from_prepend(Tail(addresses), r.data \o data)

RECURSIVE get_data_from(_, _)
get_data_from(addresses, data) ==
    IF addresses = <<>> THEN [status |-> "Ok", data |-> data]
    ELSE LET r == get_chunk(Head(addresses))
         IN  IF r.status # "Ok" THEN r
             ELSE get_data_from(Tail(addresses), data \o r.data)

get_data(addresses) == get_data_from(addresses, <<>>)

RECURSIVE SumLen(_)
SumLen(paths) ==
    IF paths = {} THEN 0
    ELSE LET p == CHOOSE x \in paths : TRUE
         IN  Len(objects[p]) + SumLen(paths \ {p})

stats ==
    [total_chunks |-> Cardinality(DOMAIN objects),
     total_size |-> SumLen(DOMAIN objects)]

\* mutant: the shard directory's name is left out
PathTextFileOnly(path) == path.filename

\* store.rs line 277: format!("{}{}", subdir_str, filename_str)
PathText(path) == path.subdir \o path.filename

\* lines 256-308, list_content: one ChunkInfo for every file under objects/
\* whose directory name and file name together parse as a content address
\* (the order, by creation time, is not modelled), and the totals of stats
list_content ==
    [chunks |-> {[address |-> from_hex(PathText(path)).address,
                  size |-> Len(objects[path]),
                  file_path |-> path] :
                    path \in {x \in DOMAIN objects :
                                from_hex(PathText(x)).status = "Ok"}},
     stats |-> stats]

\* ---- ContentStore::put_chunk, one step per file-system call
\* What follows the return of put_chunk with the given status: the caller is
\* the top-level call itself, or the loop of put_data (the ? operator makes a
\* failed chunk fail the whole put_data).
\* mutant: the new address goes to the front of the list
PushAddressFront(addresses, address) == <<address>> \o addresses

\* store.rs line 180: addresses.push(address)
PushAddress(addresses, address) == Append(addresses, address)

AfterPutChunk(f, status) ==
    LET addresses == IF status = "Ok" THEN PushAddress(f.addresses, f.address)
                     ELSE f.addresses
    IN  IF f.op = "put_chunk"
        THEN [frame |-> IdleFrame,
              ret |-> [op |-> "put_chunk", status |-> status, data |-> f.data,
                       address |-> f.address, wrote |-> f.wrote,
                       again |-> f.again]]
        ELSE IF status # "Ok"
        THEN [frame |-> IdleFrame,
              ret |-> IF f.op \in {"put_data", "put_file"}
                      THEN [op |-> f.op, status |-> status,
                            data |-> f.input, stored |-> f.addresses,
                            attempt |-> f.attempt]
                      ELSE [op |-> "put_file_with_registry",
                            status |-> "Storage", pre |-> f.pre]]
        ELSE IF f.chunks # <<>>
        THEN [frame |-> [f EXCEPT !.pc = "put_chunk",
                                  !.data = Head(f.chunks).data,
                                  !.chunks = Tail(f.chunks),
                                  !.addresses = addresses,
                                  !.fd = NoFd, !.off = 0],
              ret |-> NoRet]
        ELSE IF f.op \in {"put_data", "put_file"}
        THEN [frame |-> IdleFrame,
              ret |-> [op |-> f.op, status |-> "Ok", data |-> f.input,
                       addresses |-> addresses, attempt |-> f.attempt]]
        ELSE [frame |-> [f EXCEPT !.pc = "register", !.addresses = addresses,
                                  !.fd = NoFd, !.off = 0],
              ret |-> NoRet]

ReturnPutChunk(t, f, status) ==
    LET after == AfterPutChunk(f, status)
    IN  /\ th' = [th EXCEPT ![t] = after.frame]
        /\ ret' = [ret EXCEPT ![t] = after.ret]
        /\ puts' = IF status = "Ok"
                   THEN puts \cup {[data |-> f.data, address |-> f.address]}
                   ELSE puts

\* mutant: a failed put_data deletes the chunks it had stored
KeepStoredRollback(f) ==
    LET undone == {chunk_path(f.addresses[i]) : i \in 1..Len(f.addresses)}
    IN  [p \in DOMAIN objects \ undone |-> objects[p]]

\* store.rs line 179: the ? returns the error of put_chunk at once; the
\* chunks stored by earlier iterations are left where they are
KeepStored(f) == objects

\* mutant: the existence test never finds the object
final_exists_never(final_path) == FALSE

\* mutant: the existence test always finds an object
final_exists_always(final_path) == TRUE

\* the existence test that deduplicates (store.rs:112)
final_exists(final_path) == PathExists(final_path)

\* lines 107-117: address, existence test, temp path from the wall clock,
\* of which two calls read the same instant (1) or different ones (1 and 2)
PutChunkEntry(t) ==
    /\ th[t].pc = "put_chunk"
    /\ LET address == ChunkNew(th[t].data).address
           final_path == chunk_path(address)
           f == [th[t] EXCEPT !.address = address, !.wrote = FALSE,
                              !.again = \E p \in puts : p.data = th[t].data]
       IN  IF final_exists(final_path)
           THEN ReturnPutChunk(t, f, "Ok")
           ELSE /\ \E n \in {1, 2} :
                     th' = [th EXCEPT ![t] = [f EXCEPT !.pc = "create_dir",
                                                       !.nonce = n]]
                /\ UNCHANGED <<ret, puts>>
    /\ UNCHANGED <<config, envVars, nodeVars, storeVars, calls>>

\* lines 121-123: create_dir_all(parent)
CreateDir(t, fail) ==
    /\ th[t].pc = "create_dir"
    /\ IF fail
       THEN /\ ReturnPutChunk(t, th[t], "Io")
            /\ objects' = KeepStored(th[t])
            /\ UNCHANGED <<dirs, temp>>
       ELSE /\ dirs' = dirs \cup {chunk_path(th[t].address).subdir}
            /\ th' = [th EXCEPT ![t].pc = "write_open"]
            /\ UNCHANGED <<objects, temp, ret, puts>>
    /\ UNCHANGED <<config, envVars, nodeVars, calls>>

\* line 126, fs::write: create or truncate the temp file
WriteOpen(t, fail) ==
    /\ th[t].pc = "write_open"
    /\ IF fail
       THEN /\ ReturnPutChunk(t, th[t], "Io")
            /\ objects' = KeepStored(th[t])
            /\ UNCHANGED <<dirs, temp>>
       ELSE /\ temp' = Put(temp, th[t].nonce, <<>>)
            /\ th' = [th EXCEPT ![t].wrote = TRUE,
                                ![t].off = 0,
                                ![t].fd = IF th[t].data = <<>> THEN NoFd
                                          ELSE [NoFd EXCEPT
                                                   !.kind = "temp",
                                                   !.nonce = th[t].nonce],
                                ![t].pc = IF th[t].data = <<>> THEN "rename"
                                          ELSE "write"]
            /\ UNCHANGED <<dirs, objects, ret, puts>>
    /\ UNCHANGED <<config, envVars, nodeVars, calls>>

\* mutant: a single write call, which returns after the first byte
WriteEndFirst(f) == TRUE

\* write_all returns once every byte of the buffer has been written
WriteEnd(f) == f.off + 1 = Len(f.data)

\* line 126, fs::write: write_all through the open descriptor, byte by byte;
\* the descriptor follows the file when another thread renames or replaces it
WriteBytes(t, fail) ==
    /\ th[t].pc = "write"
    /\ IF fail
       THEN /\ ReturnPutChunk(t, [th[t] EXCEPT !.fd = NoFd], "Io")
            /\ objects' = KeepStored(th[t])
            /\ UNCHANGED <<dirs, temp>>
       ELSE LET f == th[t]
                b == f.data[f.off + 1]
                done == WriteEnd(f)
            IN  /\ temp' = IF f.fd.kind = "temp"
                           THEN [temp EXCEPT ![f.fd.nonce] = WriteAt(@, f.off, b)]
                           ELSE temp
                /\ objects' = IF f.fd.kind = "obj"
                              THEN [objects EXCEPT ![f.fd.path] = WriteAt(@, f.off, b)]
                              ELSE objects
                /\ th' = [th EXCEPT ![t].off = f.off + 1,
                                    ![t].fd = IF done THEN NoFd ELSE f.fd,
                                    ![t].pc = IF done THEN "rename" ELSE "write"]
                /\ UNCHANGED <<dirs, ret, puts>>
    /\ UNCHANGED <<config, envVars, nodeVars, calls>>

\* where an open descriptor points after temp/tmp_<n> was renamed to path
Retarget(fd, n, path) ==
    IF fd.kind = "temp" /\ fd.nonce = n
    THEN [NoFd EXCEPT !.kind = "obj", !.path = path]
    ELSE IF fd.kind = "obj" /\ fd.path = path
    THEN [NoFd EXCEPT !.kind = "gone"]
    ELSE fd

\* line 129: fs::rename(temp_path, final_path); fails when the temp file is
\* no longer there
Rename(t, fail) ==
    /\ th[t].pc = "rename"
    /\ LET f == th[t]
           final_path == chunk_path(f.address)
       IN  IF fail \/ f.nonce \notin DOMAIN temp
           THEN /\ ReturnPutChunk(t, f, "Io")
                /\ objects' = KeepStored(f)
                /\ UNCHANGED <<dirs, temp>>
           ELSE LET after == AfterPutChunk(f, "Ok")
                IN  /\ objects' = Put(Remove(objects, final_path), final_path,
                                      temp[f.nonce])
                    /\ temp' = Remove(temp, f.nonce)
                    /\ th' = [u \in Threads |->
                                IF u = t THEN after.frame
                                ELSE [th[u] EXCEPT
                                        !.fd = Retarget(@, f.nonce, final_path)]]
                    /\ ret' = [ret EXCEPT ![t] = after.ret]
                    /\ puts' = puts \cup {[data |-> f.data, address |-> f.address]}
                    /\ UNCHANGED dirs
    /\ UNCHANGED <<config, envVars, nodeVars, calls>>

\* ---- top-level calls
CallPutChunk(t, data) ==
    /\ th[t].pc = "idle"
    /\ calls < MaxCalls
    /\ calls' = calls + 1
    /\ th' = [th EXCEPT ![t] = [IdleFrame EXCEPT !.pc = "put_chunk",
                                                 !.op = "put_chunk",
                                                 !.data = data]]
    /\ ret' = [ret EXCEPT ![t] = NoRet]
    /\ UNCHANGED <<config, envVars, nodeVars, storeVars, puts>>

\* lines 173-184: chunk the data, then put_chunk each chunk in order
CallPutData(t, data) ==
    /\ th[t].pc = "idle"
    /\ calls < MaxCalls
    /\ calls' = calls + 1
    /\ LET chunks == chunk_data(data, config.chunk_config)
           attempt == IF /\ ret[t].op = "put_data"
                         /\ ret[t].status # "Ok"
                         /\ ret[t].data = data
                      THEN [retry |-> TRUE, kept |-> ret[t].stored,
                            before |-> ret[t].attempt.before]
                      ELSE FirstAttempt(objects)
       IN  IF chunks = <<>>
           THEN /\ th' = th
                /\ ret' = [ret EXCEPT ![t] =
                             [op |-> "put_data", status |-> "Ok",
                              data |-> data, addresses |-> <<>>,
                              attempt |-> attempt]]
           ELSE /\ th' = [th EXCEPT ![t] =
                            [IdleFrame EXCEPT !.pc = "put_chunk",
                                              !.op = "put_data",
                                              !.input = data,
                                              !.attempt = attempt,
                                              !.data = Head(chunks).data,
                                              !.chunks = Tail(chunks)]]
                /\ ret' = [ret EXCEPT ![t] = NoRet]
    /\ UNCHANGED <<config, envVars, nodeVars, storeVars, puts>>

\* lines 135-159: a read; the result is recorded, nothing is written
CallGetChunk(t, address) ==
    /\ th[t].pc = "idle"
    /\ calls < MaxCalls
    /\ calls' = calls + 1
    /\ ret' = [ret EXCEPT ![t] = [op |-> "get_chunk", status |-> "none",
                                  address |-> address,
                                  result |-> get_chunk(address)]]
    /\ UNCHANGED <<config, envVars, nodeVars, storeVars, th, puts>>

Addresses ==
    {from_data_with_algorithm(d, a) : d \in Data, a \in HashAlgorithm}

\* mutant: the whole shard directory of the path is deleted
fs_remove_file_shard(path) ==
    [x \in {p \in DOMAIN objects : p.subdir # path.subdir} |-> objects[x]]

\* line 238, fs::remove_file of an object path
fs_remove_file(path) == Remove(objects, path)

\* lines 235-243: the file at chunk_path is deleted if it exists, and the
\* call tells whether it was; fail is an error of fs::remove_file
CallRemoveChunk(t, address, fail) ==
    /\ th[t].pc = "idle"
    /\ calls < MaxCalls
    /\ calls' = calls + 1
    /\ LET path == chunk_path(address)
           returns(status, removed) ==
               [op |-> "remove_chunk", status |-> status,
                address |-> address, removed |-> removed]
       IN  IF ~PathExists(path)
           THEN /\ ret' = [ret EXCEPT ![t] = returns("Ok", FALSE)]
                /\ UNCHANGED objects
           ELSE IF fail
           THEN /\ ret' = [ret EXCEPT ![t] = returns("Io", FALSE)]
                /\ UNCHANGED objects
           ELSE /\ ret' = [ret EXCEPT ![t] = returns("Ok", TRUE)]
                /\ objects' = fs_remove_file(path)
    /\ UNCHANGED <<config, envVars, nodeVars, dirs, temp, th, puts>>

PutChunkStep(t, fail) ==
    \/ PutChunkEntry(t) /\ ~fail
    \/ CreateDir(t, fail)
    \/ WriteOpen(t, fail)
    \/ WriteBytes(t, fail)
    \/ Rename(t, fail)

vars ==
    <<config, dirs, objects, temp, th, ret, puts, calls, crashed, corrupted,
      node, state, files, registry_file, ids, ingested,
      metadata_file, node_id, built, drawn, cmd>>

\* ContentStoreConfig as Node::new and the tests build it: verify_on_read on
Init ==
    /\ config \in [verify_on_read : {TRUE}, chunk_config : ChunkConfigs]
    /\ StoreInit
    /\ NodeInit

\* one thread uses the store; any file-system call may fail
Next ==
    \/ \E d \in Data : CallPutChunk(MainThread, d)
    \/ \E d \in Data : CallPutData(MainThread, d)
    \/ \E a \in Addresses : CallGetChunk(MainThread, a)
    \/ \E fail \in BOOLEAN : PutChunkStep(MainThread, fail)

Spec == Init /\ [][Next]_vars

\* the same store with remove_chunk among its calls
NextRemove ==
    \/ Next
    \/ \E a \in Addresses, fail \in BOOLEAN :
         CallRemoveChunk(MainThread, a, fail)

SpecRemove == Init /\ [][NextRemove]_vars

\* ---- the environment
\* the process is killed: calls in progress vanish, the files stay
Crash ==
    /\ \E t \in Threads : th[t].pc # "idle"
    /\ th' = [t \in Threads |-> IdleFrame]
    /\ ret' = [t \in Threads |-> NoRet]
    /\ crashed' = TRUE
    /\ UNCHANGED <<config, nodeVars, storeVars, puts, calls, corrupted>>

SpecCrash == Init /\ [][Next \/ Crash]_vars

\* a stored object is overwritten from outside the store, as
\* test_corruption_detection does (store.rs:441-443)
Corrupt(path, data) ==
    /\ th[MainThread].pc = "idle"
    /\ path \in DOMAIN objects
    /\ corrupted = {}
    /\ objects' = [objects EXCEPT ![path] = data]
    /\ corrupted' = corrupted \cup {path}
    /\ UNCHANGED <<config, nodeVars, dirs, temp, th, ret, puts, calls, crashed>>

\* verify_on_read is a public configuration field: both settings
InitTamper ==
    /\ config \in [verify_on_read : BOOLEAN, chunk_config : {DefaultChunkConfig}]
    /\ StoreInit
    /\ NodeInit

\* put_chunk and get_chunk calls, with an overwrite from outside in between
NextTamper ==
    \/ \E d \in Data : CallPutChunk(MainThread, d)
    \/ \E a \in Addresses : CallGetChunk(MainThread, a)
    \/ PutChunkStep(MainThread, FALSE)
    \/ \E p \in DOMAIN objects, d \in Data : Corrupt(p, d)

SpecTamper == InitTamper /\ [][NextTamper]_vars

\* an object file is placed under objects/ from outside the store, at the
\* path chunk_path gives for the address of its bytes under either
\* algorithm; a path already present is left as it is
Place(data, algorithm) ==
    /\ th[MainThread].pc = "idle"
    /\ calls < MaxCalls
    /\ calls' = calls + 1
    /\ LET path == chunk_path(from_data_with_algorithm(data, algorithm))
       IN  /\ ~PathExists(path)
           /\ objects' = Put(objects, path, data)
           /\ dirs' = dirs \cup {path.subdir}
    /\ UNCHANGED <<config, nodeVars, temp, th, ret, puts, crashed, corrupted>>

\* get_chunk calls on a store directory that holds objects of both
\* algorithms
NextForeign ==
    \/ \E d \in Data, a \in HashAlgorithm : Place(d, a)
    \/ \E a \in Addresses : CallGetChunk(MainThread, a)

SpecForeign == InitTamper /\ [][NextForeign]_vars

\* several threads of one process call put_chunk; no injected I/O failure
NextConc ==
    \E t \in Threads :
        \/ \E d \in Data : CallPutChunk(t, d)
        \/ PutChunkStep(t, FALSE)

InitConc ==
    /\ config = [verify_on_read |-> TRUE, chunk_config |-> DefaultChunkConfig]
    /\ StoreInit
    /\ NodeInit

SpecConc == InitConc /\ [][NextConc]_vars

\* ------------------------------------------------- file/registry.rs
\* A UUID as its two hex groups: the first eight digits and the rest.
FirstGroups == <<"0a1b2c3d", "9f8e7d6c">>
RestGroups == <<"4e5f", "6a7b">>
FileIds ==
    {<<FirstGroups[i], RestGroups[j]>> :
        i \in DOMAIN FirstGroups, j \in DOMAIN RestGroups}

Names == {"foo.txt"}

\* Uuid's text form: the groups joined by dashes
UuidToString(id) == <<id[1], "-", id[2]>>
ParseUuid(str) == <<str[1], str[3]>>

\* lines 48-50: the first eight digits of the id text without its dashes
short_id(meta) ==
    LET no_dashes == SelectSeq(UuidToString(meta.id), LAMBDA c : c # "-")
    IN  no_dashes[1]

\* lines 21-37, FileMetadata::new with the id and the time it draws
FileMetadataNew(id, original_name, chunk_addresses, total_size, now) ==
    [id |-> id, original_name |-> original_name,
     chunk_count |-> Len(chunk_addresses),
     chunk_addresses |-> chunk_addresses,
     total_size |-> total_size, created_at |-> now]

\* mutant: the chunk addresses are written out last to first
SerializeMetadataReversed(meta) ==
    [id |-> UuidToString(meta.id), original_name |-> meta.original_name,
     chunk_addresses |->
         [i \in 1..Len(meta.chunk_addresses) |->
            meta.chunk_addresses[Len(meta.chunk_addresses) + 1 - i]],
     total_size |-> meta.total_size, created_at |-> meta.created_at,
     chunk_count |-> meta.chunk_count]

\* serde: the metadata as a JSON object, the id as text
SerializeMetadata(meta) ==
    [id |-> UuidToString(meta.id), original_name |-> meta.original_name,
     chunk_addresses |-> meta.chunk_addresses,
     total_size |-> meta.total_size, created_at |-> meta.created_at,
     chunk_count |-> meta.chunk_count]

DeserializeMetadata(json) ==
    [id |-> ParseUuid(json.id), original_name |-> json.original_name,
     chunk_addresses |-> json.chunk_addresses,
     total_size |-> json.total_size, created_at |-> json.created_at,
     chunk_count |-> json.chunk_count]

\* the entries of the JSON object, in the map's iteration order
RECURSIVE EntryTokens(_, _)
EntryTokens(map, keys) ==
    IF keys = {} THEN <<>>
    ELSE LET id == CHOOSE k \in keys : TRUE
         IN  <<Token("entry", UuidToString(id), SerializeMetadata(map[id]))>>
             \o EntryTokens(map, keys \ {id})

\* serde_json::to_string_pretty(&self.files)
SerializeRegistry(map) ==
    <<OpenToken>> \o EntryTokens(map, DOMAIN map) \o <<CloseToken>>

\* mutant: a file that does not parse is taken for an empty registry
load_registry_lenient(content) == [status |-> "Ok", files |-> <<>>]

\* lines 161-171: empty content is the empty map; anything that is not one
\* complete JSON object is CorruptedRegistry
load_registry(content) ==
    IF content = <<>> THEN [status |-> "Ok", files |-> <<>>]
    ELSE IF /\ Len(content) >= 2
            /\ content[1].kind = "open"
            /\ content[Len(content)].kind = "close"
            /\ \A i \in 2..(Len(content) - 1) : content[i].kind = "entry"
    THEN LET entries == {content[i] : i \in 2..(Len(content) - 1)}
         IN  [status |-> "Ok",
              files |-> [id \in {ParseUuid(e.key) : e \in entries} |->
                           LET e == CHOOSE x \in entries : ParseUuid(x.key) = id
                           IN  DeserializeMetadata(e.value)]]
    ELSE [status |-> "CorruptedRegistry", files |-> <<>>]

\* lines 78-91, FileRegistry::new over a storage directory holding this file
LoadFrom(file) ==
    IF file.exists THEN load_registry(file.content)
    ELSE [status |-> "Ok", files |-> <<>>]

FileRegistryNew == LoadFrom(registry_file)

\* lines 107-109
get_file(file_id) ==
    IF file_id \in DOMAIN files THEN files[file_id] ELSE NoMeta

\* lines 112-114: the first value, in the map's iteration order, whose short
\* id is the one asked for; the order of a HashMap is arbitrary, so any of
\* the matching values can be the one returned
get_file_by_short_id(short) ==
    {files[id] : id \in {x \in DOMAIN files : short_id(files[x]) = short}}

\* ------------------------------------------------- node.rs
\* mutant: every state passes the running test
is_running_always == TRUE

\* lines 176-178
is_running == state = "Running"

Idle(t) == node /\ th[t].pc = "idle"

\* line 156: start() assigns Starting, whatever the state was
Start(t) ==
    /\ Idle(t)
    /\ state' = "Starting"
    /\ th' = [th EXCEPT ![t] = [IdleFrame EXCEPT !.pc = "starting",
                                                 !.op = "start",
                                                 !.from = state]]
    /\ ret' = [ret EXCEPT ![t] = NoRet]
    /\ UNCHANGED <<config, envVars, storeVars, puts, calls, node,
                   registryVars, ingested, identityVars, cmd>>

\* mutant: start() returns with the state left at Starting
StartDoneStarting(t) ==
    /\ th[t].pc = "starting"
    /\ state' = "Starting"
    /\ th' = [th EXCEPT ![t] = IdleFrame]
    /\ ret' = [ret EXCEPT ![t] = [op |-> "start", status |-> "Ok",
                                  from |-> th[t].from]]
    /\ UNCHANGED <<config, envVars, storeVars, puts, calls, node,
                   registryVars, ingested, identityVars, cmd>>

\* lines 160-163: then Running, and Ok
StartDone(t) ==
    /\ th[t].pc = "starting"
    /\ state' = "Running"
    /\ th' = [th EXCEPT ![t] = IdleFrame]
    /\ ret' = [ret EXCEPT ![t] = [op |-> "start", status |-> "Ok",
                                  from |-> th[t].from]]
    /\ UNCHANGED <<config, envVars, storeVars, puts, calls, node,
                   registryVars, ingested, identityVars, cmd>>

\* line 167: stop() assigns Stopping, whatever the state was
Stop(t) ==
    /\ Idle(t)
    /\ state' = "Stopping"
    /\ th' = [th EXCEPT ![t] = [IdleFrame EXCEPT !.pc = "stopping",
                                                 !.op = "stop",
                                                 !.from = state]]
    /\ ret' = [ret EXCEPT ![t] = NoRet]
    /\ UNCHANGED <<config, envVars, storeVars, puts, calls, node,
                   registryVars, ingested, identityVars, cmd>>

\* lines 170-173: then Stopped, and Ok
StopDone(t) ==
    /\ th[t].pc = "stopping"
    /\ state' = "Stopped"
    /\ th' = [th EXCEPT ![t] = IdleFrame]
    /\ ret' = [ret EXCEPT ![t] = [op |-> "stop", status |-> "Ok",
                                  from |-> th[t].from]]
    /\ UNCHANGED <<config, envVars, storeVars, puts, calls, node,
                   registryVars, ingested, identityVars, cmd>>

\* line 81: state is a public field; the embedding program records an
\* unrecoverable failure in it
MarkError(t) ==
    /\ Idle(t)
    /\ state # "Error"
    /\ state' = "Error"
    /\ UNCHANGED <<config, envVars, storeVars, th, ret, puts, calls, node,
                   registryVars, ingested, identityVars, cmd>>

IngestRet(f, status) ==
    [op |-> "put_file_with_registry", status |-> status, pre |-> f.pre,
     data |-> f.input, meta |-> f.meta]

\* lines 208-220: the running test, fs::metadata, then ContentStore::put_file
\* (fs::read and put_data); fail is an I/O error reading the input file
CallPutFileWithRegistryOf(t, name, file_size, data, fail) ==
    /\ Idle(t)
    /\ calls < MaxCalls
    /\ calls' = calls + 1
    /\ LET chunks == chunk_data(data, config.chunk_config)
           f == [IdleFrame EXCEPT !.op = "put_file_with_registry",
                                  !.input = data, !.name = name,
                                  !.size = file_size,
                                  !.pre = [files |-> files,
                                           disk |-> registry_file]]
       IN  IF ~is_running
           THEN /\ ret' = [ret EXCEPT ![t] = IngestRet(f, "NotRunning")]
                /\ th' = th
           ELSE IF fail
           THEN /\ ret' = [ret EXCEPT ![t] = IngestRet(f, "Io")]
                /\ th' = th
           ELSE /\ ret' = [ret EXCEPT ![t] = NoRet]
                /\ th' = [th EXCEPT ![t] =
                            IF chunks = <<>>
                            THEN [f EXCEPT !.pc = "register"]
                            ELSE [f EXCEPT !.pc = "put_chunk",
                                           !.data = Head(chunks).data,
                                           !.chunks = Tail(chunks)]]
    /\ UNCHANGED <<config, envVars, nodeVars, storeVars, puts>>

\* the ingest of a regular file that nothing else writes: fs::metadata
\* reports the number of bytes fs::read returns
CallPutFileWithRegistry(t, name, data, fail) ==
    CallPutFileWithRegistryOf(t, name, Len(data), data, fail)

\* lines 196-205, Node::put_file: the running test, then
\* ContentStore::put_file (fs::read and put_data); no registry entry
CallPutFile(t, data, fail) ==
    /\ Idle(t)
    /\ calls < MaxCalls
    /\ calls' = calls + 1
    /\ LET chunks == chunk_data(data, config.chunk_config)
           f == [IdleFrame EXCEPT !.op = "put_file", !.input = data]
           returns(status) == [op |-> "put_file", status |-> status,
                               data |-> data, addresses |-> <<>>]
       IN  IF ~is_running
           THEN /\ ret' = [ret EXCEPT ![t] = returns("NotRunning")]
                /\ th' = th
           ELSE IF fail
           THEN /\ ret' = [ret EXCEPT ![t] = returns("Io")]
                /\ th' = th
           ELSE IF chunks = <<>>
           THEN /\ ret' = [ret EXCEPT ![t] = returns("Ok")]
                /\ th' = th
           ELSE /\ ret' = [ret EXCEPT ![t] = NoRet]
                /\ th' = [th EXCEPT ![t] =
                            [f EXCEPT !.pc = "put_chunk",
                                      !.data = Head(chunks).data,
                                      !.chunks = Tail(chunks)]]
    /\ UNCHANGED <<config, envVars, nodeVars, storeVars, puts>>

\* store.rs lines 199-203, ContentStore::get_file: get_data, then the bytes
\* are written to the output path
StoreGetFile(addresses) ==
    LET r == get_data(addresses)
    IN  IF r.status = "Ok" THEN [status |-> "Ok", data |-> r.data]
        ELSE [status |-> "Storage", data |-> <<>>]

\* lines 239-252, Node::get_file
NodeGetFile(addresses) ==
    IF ~is_running THEN [status |-> "NotRunning", data |-> <<>>]
    ELSE StoreGetFile(addresses)

\* mutant: the metadata of some registered file, not of the one asked for
NodeGetFileByIdAny(file_id) ==
    IF ~is_running THEN [status |-> "NotRunning", data |-> <<>>]
    ELSE IF file_id \notin DOMAIN files
    THEN [status |-> "General", data |-> <<>>]
    ELSE StoreGetFile(
           files[CHOOSE x \in DOMAIN files :
                   \A y \in DOMAIN files :
                      files[x].created_at <= files[y].created_at
                ].chunk_addresses)

\* lines 255-277, Node::get_file_by_id
NodeGetFileById(file_id) ==
    IF ~is_running THEN [status |-> "NotRunning", data |-> <<>>]
    ELSE IF file_id \notin DOMAIN files
    THEN [status |-> "General", data |-> <<>>]
    ELSE StoreGetFile(files[file_id].chunk_addresses)

\* lines 280-303, Node::get_file_by_short_id, for each metadata the registry
\* lookup can return
NodeGetFileByShortId(short) ==
    IF ~is_running THEN {[status |-> "NotRunning", data |-> <<>>]}
    ELSE IF get_file_by_short_id(short) = {}
    THEN {[status |-> "General", data |-> <<>>]}
    ELSE {StoreGetFile(m.chunk_addresses) : m \in get_file_by_short_id(short)}

\* a retrieval verb returns; fs::write has written the output path if Ok,
\* and out is what the path holds after the call
Retrieve(t, op, arg, result) ==
    /\ Idle(t)
    /\ ret' = [ret EXCEPT ![t] =
                 [op |-> op, status |-> result.status, arg |-> arg,
                  out |-> IF result.status = "Ok"
                          THEN [exists |-> TRUE, content |-> result.data]
                          ELSE NoOut]]
    /\ UNCHANGED <<config, envVars, storeVars, th, puts, calls, node, state,
                   registryVars, ingested, identityVars, cmd>>

CallGetFile(t, addresses) ==
    Retrieve(t, "get_file", <<>>, NodeGetFile(addresses))

CallGetFileById(t, file_id) ==
    Retrieve(t, "get_file_by_id", file_id, NodeGetFileById(file_id))

CallGetFileByShortId(t, short) ==
    \E result \in NodeGetFileByShortId(short) :
        Retrieve(t, "get_file_by_short_id", <<short>>, result)

\* the contents of the files handed to the Node: the empty file and the
\* files that begin with byte 0
FileData == {d \in Data : d = <<>> \/ d[1] = 0}

\* registry.rs lines 100-101: build the metadata and insert it in the map;
\* SystemTime::now() in seconds is the number of calls made so far.
\* Uuid::new_v4 draws a random id that was not drawn before.  Ids are opaque:
\* only which ids are equal and which share their first eight digits can
\* matter, so one representative of each such pattern is drawn (the first
\* groups and, within a first group, the rest groups are used in order).
RegisterFile(t) ==
    /\ th[t].pc = "register"
    /\ \E id \in
           {<<FirstGroups[i], RestGroups[j]>> :
               i \in {g \in DOMAIN FirstGroups :
                        \A h \in 1..(g - 1) :
                            \E x \in ids : x[1] = FirstGroups[h]},
               j \in {r \in DOMAIN RestGroups :
                        \A q \in 1..(r - 1) :
                            \E x \in ids : x[2] = RestGroups[q]}}
             \ ids :
         LET f == th[t]
             metadata == FileMetadataNew(id, f.name, f.addresses, f.size, calls)
             inserted == Put(Remove(files, id), id, metadata)
         IN  /\ files' = inserted
             /\ ids' = ids \cup {id}
             /\ th' = [th EXCEPT ![t].pc = "save_open",
                                 ![t].meta = metadata,
                                 ![t].json = SerializeRegistry(inserted)]
    /\ UNCHANGED <<config, envVars, storeVars, ret, puts, calls,
                   node, state, registry_file, ingested, identityVars, cmd>>

\* what remove_file returns: Ok(Some(metadata)), Ok(None) or Err(Io)
RemoveRet(file_id, some, removed, pre, status) ==
    [op |-> "remove_file", status |-> status, file_id |-> file_id,
     some |-> some, removed |-> removed, pre |-> pre]

\* mutant: the map is cleared
RemoveEntryAll(map, file_id) == <<>>

\* registry.rs line 118: self.files.remove(file_id)
RemoveEntry(map, file_id) == Remove(map, file_id)

\* mutant: the chunks of the removed file are deleted from the store
StoredAfterRemoveFileChunks(file_id) ==
    IF file_id \notin DOMAIN files THEN objects
    ELSE [x \in {p \in DOMAIN objects :
                   \A i \in DOMAIN files[file_id].chunk_addresses :
                       p # chunk_path(files[file_id].chunk_addresses[i])}
            |-> objects[x]]

\* registry.rs lines 117-123: remove_file works on the map and the registry
\* file only; the objects of the store are what they were
StoredAfterRemoveFile(file_id) == objects

\* registry.rs lines 117-123, FileRegistry::remove_file: remove the entry
\* from the map and, when there was one, save the registry
CallRemoveFile(t, file_id) ==
    /\ Idle(t)
    /\ LET pre == [files |-> files, disk |-> registry_file]
           removed == RemoveEntry(files, file_id)
       IN  IF file_id \in DOMAIN files
           THEN /\ files' = removed
                /\ ingested' = Remove(ingested, file_id)
                /\ th' = [th EXCEPT ![t] =
                            [IdleFrame EXCEPT !.pc = "save_open",
                                              !.op = "remove_file",
                                              !.meta = files[file_id],
                                              !.json = SerializeRegistry(removed),
                                              !.pre = pre]]
                /\ ret' = [ret EXCEPT ![t] = NoRet]
           ELSE /\ ret' = [ret EXCEPT ![t] =
                             RemoveRet(file_id, FALSE, NoMeta, pre, "Ok")]
                /\ UNCHANGED <<files, ingested, th>>
    /\ objects' = StoredAfterRemoveFile(file_id)
    /\ UNCHANGED <<config, envVars, dirs, temp, puts, calls,
                   node, state, registry_file, ids, identityVars, cmd>>

\* what the caller of save_registry returns: register_file's error reaches
\* the caller of the ingest as General (node.rs:229-230), remove_file's as Io
SaveRet(f, ok) ==
    IF f.op = "remove_file"
    THEN RemoveRet(f.meta.id, TRUE, f.meta, f.pre, IF ok THEN "Ok" ELSE "Io")
    ELSE IngestRet(f, IF ok THEN "Ok" ELSE "General")

\* registry.rs lines 151-156, save_registry: create_dir_all and the open of
\* fs::write, which creates or truncates file_registry.json.  An error makes
\* register_file fail (node.rs:229-230 reports General).
SaveOpen(t, fail) ==
    /\ th[t].pc = "save_open"
    /\ IF fail
       THEN /\ ret' = [ret EXCEPT ![t] = SaveRet(th[t], FALSE)]
            /\ th' = [th EXCEPT ![t] = IdleFrame]
            /\ UNCHANGED registry_file
       ELSE /\ registry_file' = [exists |-> TRUE, content |-> <<>>]
            /\ th' = [th EXCEPT ![t].pc = "save_write", ![t].off = 0]
            /\ UNCHANGED ret
    /\ UNCHANGED <<config, envVars, storeVars, puts, calls,
                   node, state, files, ids, ingested, identityVars, cmd>>

\* registry.rs line 156, fs::write: the JSON text is written piece by piece
SaveWrite(t, fail) ==
    /\ th[t].pc = "save_write"
    /\ LET f == th[t]
           done == f.off + 1 = Len(f.json)
       IN  IF fail
           THEN /\ ret' = [ret EXCEPT ![t] = SaveRet(f, FALSE)]
                /\ th' = [th EXCEPT ![t] = IdleFrame]
                /\ UNCHANGED <<registry_file, ingested>>
           ELSE /\ registry_file' =
                     [registry_file EXCEPT !.content = Append(@, f.json[f.off + 1])]
                /\ th' = [th EXCEPT ![t] = IF done THEN IdleFrame
                                           ELSE [f EXCEPT !.off = f.off + 1]]
                /\ ret' = [ret EXCEPT ![t] = IF done THEN SaveRet(f, TRUE)
                                             ELSE NoRet]
                /\ ingested' = IF done /\ f.op # "remove_file"
                               THEN Put(ingested, f.meta.id, f.input)
                               ELSE ingested
    /\ UNCHANGED <<config, envVars, storeVars, puts, calls,
                   node, state, files, ids, identityVars, cmd>>

\* the process is killed, with a Node constructed or in Node::new: the Node
\* and its in-memory map are gone, the files stay
NodeCrash ==
    /\ node \/ th[MainThread].pc # "idle"
    /\ node' = FALSE
    /\ node_id' = 0
    /\ state' = "Stopped"
    /\ files' = <<>>
    /\ ingested' = <<>>
    /\ th' = [t \in Threads |-> IdleFrame]
    /\ ret' = [t \in Threads |-> NoRet]
    /\ cmd' = [t \in Threads |-> NoCommand]
    /\ UNCHANGED <<config, envVars, storeVars, puts, calls,
                   registry_file, ids, metadata_file, built, drawn>>

\* node.rs lines 92-153, Node::new on the next run.  An identity file that
\* exists and loads gives the id (lines 105-109): the storage root node<id>
\* is the one of the last run, the registry is loaded from its
\* file_registry.json, and a registry that does not load makes construction
\* fail.  Otherwise (lines 110-121) NodeMetadata::new draws an id and
\* save_to_file writes the identity file.
NodeNew(t) ==
    /\ ~node
    /\ th[t].pc = "idle"
    /\ LET identity == load_from_file(metadata_file.content)
           registry == FileRegistryNew
       IN  IF metadata_file.exists /\ identity.status = "Ok"
           THEN /\ registry.status = "Ok"
                /\ node' = TRUE
                /\ node_id' = identity.id
                /\ built' = built \cup {identity.id}
                /\ state' = "Stopped"
                /\ files' = registry.files
                /\ ret' = [ret EXCEPT ![t] = [op |-> "new", status |-> "Ok"]]
                /\ UNCHANGED <<th, drawn>>
           ELSE /\ drawn < MaxIdentities
                /\ drawn' = drawn + 1
                /\ th' = [th EXCEPT ![t] =
                            [IdleFrame EXCEPT !.pc = "identity_open",
                                              !.op = "new",
                                              !.json = SerializeIdentity(drawn + 1)]]
                /\ ret' = [ret EXCEPT ![t] = NoRet]
                /\ UNCHANGED <<node, node_id, built, state, files>>
    /\ UNCHANGED <<config, envVars, storeVars, puts, calls,
                   registry_file, ids, ingested, metadata_file, cmd>>

\* node.rs line 68, fs::write in save_to_file: the open creates or truncates
\* node_metadata.json; an error makes Node::new return it
IdentityOpen(t, fail) ==
    /\ th[t].pc = "identity_open"
    /\ IF fail
       THEN /\ ret' = [ret EXCEPT ![t] = [op |-> "new", status |-> "Io"]]
            /\ th' = [th EXCEPT ![t] = IdleFrame]
            /\ UNCHANGED metadata_file
       ELSE /\ metadata_file' = [exists |-> TRUE, content |-> <<>>]
            /\ th' = [th EXCEPT ![t].pc = "identity_write", ![t].off = 0]
            /\ UNCHANGED ret
    /\ UNCHANGED <<config, envVars, storeVars, puts, calls, node, state,
                   registryVars, ingested, node_id, built, drawn, cmd>>

\* node.rs line 68, the text is written piece by piece; when it is complete
\* lines 124-153 follow: the storage root node<id> of a newly drawn id is a
\* new directory, with an empty content store and no registry file
IdentityWrite(t, fail) ==
    /\ th[t].pc = "identity_write"
    /\ LET f == th[t]
           done == f.off + 1 = Len(f.json)
       IN  IF fail
           THEN /\ ret' = [ret EXCEPT ![t] = [op |-> "new", status |-> "Io"]]
                /\ th' = [th EXCEPT ![t] = IdleFrame]
                /\ UNCHANGED <<metadata_file, node, node_id, built, state,
                               files, registry_file, storeVars>>
           ELSE /\ metadata_file' =
                     [metadata_file EXCEPT !.content = Append(@, f.json[f.off + 1])]
                /\ th' = [th EXCEPT ![t] = IF done THEN IdleFrame
                                           ELSE [f EXCEPT !.off = f.off + 1]]
                /\ IF done
                   THEN /\ ret' = [ret EXCEPT ![t] =
                                     [op |-> "new", status |-> "Ok"]]
                        /\ node' = TRUE
                        /\ node_id' = drawn
                        /\ built' = built \cup {drawn}
                        /\ state' = "Stopped"
                        /\ files' = <<>>
                        /\ registry_file' = NoFile
                        /\ dirs' = {}
                        /\ objects' = <<>>
                        /\ temp' = <<>>
                   ELSE /\ ret' = [ret EXCEPT ![t] = NoRet]
                        /\ UNCHANGED <<node, node_id, built, state, files,
                                       registry_file, storeVars>>
    /\ UNCHANGED <<config, envVars, puts, calls, ids, ingested, drawn, cmd>>

\* one Node ingesting files, used by one thread; any file-system call may
\* fail and the process may be killed at any step
NextNode ==
    \/ Start(MainThread)
    \/ StartDone(MainThread)
    \/ Stop(MainThread)
    \/ StopDone(MainThread)
    \/ /\ calls < MaxIngests
       /\ \E name \in Names, d \in FileData, fail \in BOOLEAN :
            CallPutFileWithRegistry(MainThread, name, d, fail)
    \/ \E fail \in BOOLEAN : PutChunkStep(MainThread, fail)
    \/ RegisterFile(MainThread)
    \/ \E fail \in BOOLEAN : SaveOpen(MainThread, fail)
    \/ \E fail \in BOOLEAN : SaveWrite(MainThread, fail)
    \/ NodeCrash
    \/ NodeNew(MainThread)

SpecNode == Init /\ [][NextNode]_vars

\* one Node and all its data verbs, the file system working
NextVerbs ==
    \/ Start(MainThread)
    \/ StartDone(MainThread)
    \/ Stop(MainThread)
    \/ StopDone(MainThread)
    \/ \E name \in Names, d \in FileData :
         CallPutFileWithRegistry(MainThread, name, d, FALSE)
    \/ \E d \in FileData : CallPutFile(MainThread, d, FALSE)
    \/ \E a \in {<<>>, <<from_data(<<0>>)>>}
                   \cup {files[x].chunk_addresses : x \in DOMAIN files} :
         CallGetFile(MainThread, a)
    \/ \E file_id \in FileIds : CallGetFileById(MainThread, file_id)
    \/ \E short \in {FirstGroups[i] : i \in DOMAIN FirstGroups} :
         CallGetFileByShortId(MainThread, short)
    \/ PutChunkStep(MainThread, FALSE)
    \/ RegisterFile(MainThread)
    \/ SaveOpen(MainThread, FALSE)
    \/ SaveWrite(MainThread, FALSE)

SpecVerbs == Init /\ [][NextVerbs]_vars

\* the same, with the embedding program marking the node failed
NextLife ==
    \/ NextNode
    \/ MarkError(MainThread)

SpecLife == Init /\ [][NextLife]_vars

\* a fresh home directory: no identity file, no Node yet
InitIdentity ==
    /\ config \in [verify_on_read : {TRUE}, chunk_config : ChunkConfigs]
    /\ StoreInit
    /\ node = FALSE
    /\ node_id = 0
    /\ metadata_file = NoFile
    /\ built = {}
    /\ drawn = 0

\* the Node over a home directory that starts fresh: Node::new writes the
\* identity file, and the process may be killed while it does
NextIdentity ==
    \/ NextNode
    \/ \E fail \in BOOLEAN : IdentityOpen(MainThread, fail)
    \/ \E fail \in BOOLEAN : IdentityWrite(MainThread, fail)

SpecIdentity == InitIdentity /\ [][NextIdentity]_vars

\* registry.rs lines 78-91, FileRegistry::new called over the storage
\* directory by a process that holds no registry: Ok(Self) with the map
\* loaded, or the error of load_registry and no FileRegistry value
CallFileRegistryNew(t) ==
    /\ ~node
    /\ th[t].pc = "idle"
    /\ LET loaded == FileRegistryNew
       IN  ret' = [ret EXCEPT ![t] =
                     [op |-> "FileRegistry::new", status |-> loaded.status,
                      some |-> loaded.status = "Ok", files |-> loaded.files,
                      disk |-> registry_file]]
    /\ UNCHANGED <<config, envVars, storeVars, nodeVars, th, puts, calls>>

\* the node of SpecNode, and FileRegistry::new over what it left on disk
NextLoad ==
    \/ NextNode
    \/ CallFileRegistryNew(MainThread)

SpecLoad == Init /\ [][NextLoad]_vars

\* ---- content addresses alone
\* strings given to from_hex: one, two or three colon-separated parts, with
\* known, unknown and empty tags and with hex parts of every length up to
\* MaxHex over digits of both cases and a character that is no digit
HexParts == UNION {[1..n -> {"0", "a", "F", "g"}] : n \in 0..MaxHex}
Tags == {AlgorithmName(a) : a \in HashAlgorithm} \cup {<<"m", "d", "5">>, <<>>}
HexStrings ==
    Tags \cup {tag \o <<":">> \o h : tag \in Tags, h \in HexParts}
         \cup {tag \o <<":">> \o h \o <<":">> \o x :
                 tag \in Tags, h \in HexParts, x \in {<<>>, <<"0">>}}

\* ContentAddress::from_hex(str), on its own in a behaviour: the function
\* has no state
CallFromHex(t, str) ==
    /\ th[t].pc = "idle"
    /\ calls = 0
    /\ calls' = calls + 1
    /\ LET parsed == from_hex(str)
       IN  ret' = [ret EXCEPT ![t] =
                     [op |-> "from_hex", status |-> parsed.status,
                      str |-> str, address |-> parsed.address]]
    /\ UNCHANGED <<config, envVars, nodeVars, storeVars, th, puts>>

\* tests, lines 158-166: from_hex(&addr.to_hex())
CallHexRoundtrip(t, address) ==
    /\ th[t].pc = "idle"
    /\ calls = 0
    /\ calls' = calls + 1
    /\ LET hex == to_hex(address)
           parsed == from_hex(hex)
       IN  ret' = [ret EXCEPT ![t] =
                     [op |-> "hex_roundtrip", status |-> parsed.status,
                      address |-> address, str |-> hex,
                      parsed |-> parsed.address]]
    /\ UNCHANGED <<config, envVars, nodeVars, storeVars, th, puts>>

NextAddress ==
    \/ \E str \in HexStrings : CallFromHex(MainThread, str)
    \/ \E address \in [hash : 0..255, algorithm : HashAlgorithm] :
         CallHexRoundtrip(MainThread, address)

SpecAddress == Init /\ [][NextAddress]_vars

\* ---- the chunker alone
\* every configuration within the constraint 0 < min <= target <= max
InitChunker ==
    /\ config \in
         [verify_on_read : {TRUE},
          chunk_config :
              {c \in [min_size : 1..MaxSize, target_size : 1..MaxSize,
                      max_size : 1..MaxSize, use_content_defined : BOOLEAN] :
                  c.min_size <= c.target_size /\ c.target_size <= c.max_size}]
    /\ StoreInit
    /\ NodeInit

\* Chunker::with_config(cfg).chunk_data(data); a thread that panicked makes
\* no further call
CallChunkData(t, data) ==
    /\ th[t].pc = "idle"
    /\ ret[t].status # "Panic"
    /\ calls < MaxCalls
    /\ calls' = calls + 1
    /\ LET outcome == ChunkDataOutcome(data, config.chunk_config)
       IN  ret' = [ret EXCEPT ![t] =
                     [op |-> "chunk_data", status |-> outcome.status,
                      data |-> data, chunks |-> outcome.chunks]]
    /\ UNCHANGED <<config, envVars, nodeVars, storeVars, th, puts>>

NextChunker ==
    \E data \in UNION {[1..n -> Byte] : n \in 0..MaxInput} :
        CallChunkData(MainThread, data)

SpecChunker == InitChunker /\ [][NextChunker]_vars

\* Chunker::new() chunking an input and the same input with bytes inserted
\* at one position: two calls of chunk_data with the default configuration
CallChunkEdited(t, data, position, inserted) ==
    /\ th[t].pc = "idle"
    /\ calls = 0
    /\ calls' = calls + 1
    /\ LET edited == SubSeq(data, 1, position) \o inserted
                         \o SubSeq(data, position + 1, Len(data))
       IN  ret' = [ret EXCEPT ![t] =
                     [op |-> "chunk_edited", status |-> "Ok",
                      data |-> data, edited |-> edited,
                      position |-> position,
                      chunks |-> chunk_data(data, DefaultChunkConfig),
                      edited_chunks |->
                          chunk_data(edited, DefaultChunkConfig)]]
    /\ UNCHANGED <<config, envVars, nodeVars, storeVars, th, puts>>

NextLocality ==
    \E data \in UNION {[1..n -> Byte] : n \in 1..MaxEdit},
       inserted \in [1..1 -> Byte] :
        \E position \in 0..Len(data) :
            CallChunkEdited(MainThread, data, position, inserted)

SpecLocality == Init /\ [][NextLocality]_vars

\* a running node ingesting any path: file_size is what fs::metadata
\* reports (line 216) and the data is what fs::read returns later (line 219,
\* store.rs:168); the two differ for files under /proc, which report length
\* 0, and for a file written by another process between the two calls
NextStat ==
    \/ Start(MainThread)
    \/ StartDone(MainThread)
    \/ /\ calls < MaxIngests
       /\ \E name \in Names, file_size \in 0..MaxLen, d \in FileData :
            CallPutFileWithRegistryOf(MainThread, name, file_size, d, FALSE)
    \/ PutChunkStep(MainThread, FALSE)
    \/ RegisterFile(MainThread)
    \/ SaveOpen(MainThread, FALSE)
    \/ SaveWrite(MainThread, FALSE)

SpecStat == Init /\ [][NextStat]_vars

\* the registry of a running node: ingests of short files, and remove_file
\* with its save open to I/O errors
NextRegistry ==
    \/ Start(MainThread)
    \/ StartDone(MainThread)
    \/ \E name \in Names, d \in {x \in FileData : Len(x) <= 1} :
         CallPutFileWithRegistry(MainThread, name, d, FALSE)
    \/ \E file_id \in FileIds : CallRemoveFile(MainThread, file_id)
    \/ PutChunkStep(MainThread, FALSE)
    \/ RegisterFile(MainThread)
    \/ \E fail \in BOOLEAN :
         /\ fail => th[MainThread].op = "remove_file"
         /\ \/ SaveOpen(MainThread, fail)
            \/ SaveWrite(MainThread, fail)

SpecRegistry == Init /\ [][NextRegistry]_vars

\* the chunks of the files retrieved: of one byte at most
OutputChunks == {d \in Data : Len(d) <= 1}

\* the address lists given to get_file: one or two addresses of chunks
OutputLists ==
    LET chunk_addresses == {from_data(d) : d \in OutputChunks}
    IN  {<<a>> : a \in chunk_addresses}
            \cup {<<a, b>> : a, b \in chunk_addresses}

\* mutant: the output file is created before the chunks are read
get_file_create_first(addresses, before, fail, written) ==
    LET r == get_data(addresses)
    IN  IF r.status # "Ok"
        THEN [status |-> r.status,
              out |-> [exists |-> TRUE, content |-> <<>>]]
        ELSE IF fail = "open" THEN [status |-> "Io", out |-> before]
        ELSE IF fail = "write"
        THEN [status |-> "Io",
              out |-> [exists |-> TRUE,
                       content |-> SubSeq(r.data, 1, Min(written, Len(r.data)))]]
        ELSE [status |-> "Ok", out |-> [exists |-> TRUE, content |-> r.data]]

\* store.rs lines 199-203, ContentStore::get_file with the output path: the
\* error of get_data returns before fs::write is called; fs::write creates
\* or truncates the path and writes the bytes, and may fail on the way
get_file_to(addresses, before, fail, written) ==
    LET r == get_data(addresses)
    IN  IF r.status # "Ok" THEN [status |-> r.status, out |-> before]
        ELSE IF fail = "open" THEN [status |-> "Io", out |-> before]
        ELSE IF fail = "write"
        THEN [status |-> "Io",
              out |-> [exists |-> TRUE,
                       content |-> SubSeq(r.data, 1, Min(written, Len(r.data)))]]
        ELSE [status |-> "Ok", out |-> [exists |-> TRUE, content |-> r.data]]

\* what a get_file call leaves for its caller: the result, the output path
\* before and after, and the condition of the chunks when it was made:
\* whether some chunk of the list has no object, and whether the object of
\* some chunk holds bytes that do not hash to its address
OutputRet(op, addresses, before, result) ==
    [op |-> op, status |-> result.status, addresses |-> addresses,
     before |-> before, out |-> result.out,
     missing |->
         \E i \in DOMAIN addresses : ~PathExists(chunk_path(addresses[i])),
     corrupt |->
         \E i \in DOMAIN addresses :
             /\ PathExists(chunk_path(addresses[i]))
             /\ from_data_with_algorithm(objects[chunk_path(addresses[i])],
                                         addresses[i].algorithm)
                    # addresses[i]]

\* ContentStore::get_file(addresses, output_path), store.rs lines 199-203
CallStoreGetFile(t, addresses, before, fail, written) ==
    /\ th[t].pc = "idle"
    /\ calls < MaxCalls
    /\ calls' = calls + 1
    /\ ret' = [ret EXCEPT ![t] =
                 OutputRet("store_get_file", addresses, before,
                           get_file_to(addresses, before, fail, written))]
    /\ UNCHANGED <<config, envVars, nodeVars, storeVars, th, puts>>

\* Node::get_file(addresses, output_path), node.rs lines 239-252: the
\* running test, then ContentStore::get_file, whose error becomes Storage
CallNodeGetFile(t, addresses, before, fail, written) ==
    /\ Idle(t)
    /\ calls < MaxCalls
    /\ calls' = calls + 1
    /\ LET r == get_file_to(addresses, before, fail, written)
           result == IF ~is_running
                     THEN [status |-> "NotRunning", out |-> before]
                     ELSE IF r.status = "Ok" THEN r
                     ELSE [r EXCEPT !.status = "Storage"]
       IN  ret' = [ret EXCEPT ![t] =
                     OutputRet("node_get_file", addresses, before, result)]
    /\ UNCHANGED <<config, envVars, nodeVars, storeVars, th, puts>>

\* a store whose objects are put, removed and overwritten from outside, read
\* by get_file into an output path; the Node's store verifies on read
\* (node.rs:134), a ContentStore built directly may not.  The output path
\* holds nothing before the call, or a file of an earlier run; fs::write of
\* the output succeeds, fails at the open, or fails after some of the bytes
NextOutput ==
    \/ \E d \in OutputChunks : CallPutChunk(MainThread, d)
    \/ PutChunkStep(MainThread, FALSE)
    \/ \E d \in OutputChunks :
         CallRemoveChunk(MainThread, from_data(d), FALSE)
    \/ \E p \in DOMAIN objects, d \in OutputChunks : Corrupt(p, d)
    \/ \E addresses \in OutputLists,
          before \in {NoOut, [exists |-> TRUE, content |-> <<1, 1>>]},
          fail \in {"none", "open", "write"}, written \in 0..1 :
            \/ CallStoreGetFile(MainThread, addresses, before, fail, written)
            \/ /\ config.verify_on_read
               /\ CallNodeGetFile(MainThread, addresses, before, fail, written)
    \/ /\ config.verify_on_read
       /\ \/ Start(MainThread)
          \/ StartDone(MainThread)

SpecOutput == InitTamper /\ [][NextOutput]_vars

\* node.rs lines 185-189, run_command: self.start()? begins (line 156)
RunCommand(t) ==
    /\ Idle(t)
    /\ cmd[t].stage = "none"
    /\ state' = "Starting"
    /\ th' = [th EXCEPT ![t] = [IdleFrame EXCEPT !.pc = "starting",
                                                 !.op = "start",
                                                 !.from = state]]
    /\ ret' = [ret EXCEPT ![t] = NoRet]
    /\ cmd' = [cmd EXCEPT ![t] = [stage |-> "start", result |-> NoRet]]
    /\ UNCHANGED <<config, envVars, storeVars, puts, calls, node,
                   registryVars, ingested, identityVars>>

\* line 190, let result = operation(self): start() has returned, the
\* operation has not been called yet
CommandOperationDue(t) ==
    cmd[t].stage = "start" /\ Idle(t) /\ ret[t].op = "start"

\* lines 190-191: the operation has returned; its result is kept and
\* self.stop()? begins (line 167)
RunCommandStop(t) ==
    /\ Idle(t)
    /\ cmd[t].stage = "start"
    /\ ret[t].op \notin {"none", "start"}
    /\ state' = "Stopping"
    /\ th' = [th EXCEPT ![t] = [IdleFrame EXCEPT !.pc = "stopping",
                                                 !.op = "stop",
                                                 !.from = state]]
    /\ cmd' = [cmd EXCEPT ![t] = [stage |-> "stop", result |-> ret[t]]]
    /\ UNCHANGED <<config, envVars, storeVars, ret, puts, calls, node,
                   registryVars, ingested, identityVars>>

\* mutant: run_command returns what stop() returned
CommandResultOfStop(t) == ret[t]

\* line 192: result, the value the operation returned
CommandResult(t) == cmd[t].result

\* line 192: stop() has returned Ok and run_command returns
RunCommandReturn(t) ==
    /\ Idle(t)
    /\ cmd[t].stage = "stop"
    /\ ret[t].op = "stop"
    /\ ret' = [ret EXCEPT ![t] =
                 [op |-> "run_command", status |-> CommandResult(t).status,
                  result |-> CommandResult(t)]]
    /\ cmd' = [cmd EXCEPT ![t] = NoCommand]
    /\ UNCHANGED <<config, envVars, storeVars, th, puts, calls, node, state,
                   registryVars, ingested, identityVars>>

\* a Node driven through run_command, whatever state it is in before: the
\* operation is an ingest (the input readable or not) or a retrieval
NextCommand ==
    \/ /\ cmd[MainThread].stage = "none"
       /\ \/ Start(MainThread)
          \/ MarkError(MainThread)
    \/ RunCommand(MainThread)
    \/ StartDone(MainThread)
    \/ /\ CommandOperationDue(MainThread)
       /\ \/ /\ calls < MaxIngests
             /\ \E name \in Names, d \in FileData, fail \in BOOLEAN :
                  CallPutFileWithRegistry(MainThread, name, d, fail)
          \/ \E file_id \in FileIds : CallGetFileById(MainThread, file_id)
    \/ PutChunkStep(MainThread, FALSE)
    \/ RegisterFile(MainThread)
    \/ SaveOpen(MainThread, FALSE)
    \/ SaveWrite(MainThread, FALSE)
    \/ RunCommandStop(MainThread)
    \/ StopDone(MainThread)
    \/ RunCommandReturn(MainThread)

SpecCommand == Init /\ [][NextCommand]_vars

\* the registry verbs of a running node together with the chunk calls of
\* its content store
NextFrames ==
    \/ NextRegistry
    \/ \E a \in Addresses : CallGetChunk(MainThread, a)
    \/ \E a \in Addresses : CallRemoveChunk(MainThread, a, FALSE)

SpecFrames == Init /\ [][NextFrames]_vars

\* =================================================================== claims

\* C1: whenever put_data(b) has returned Ok with an address list, get_data of
\* that list returns Ok with exactly b (b empty, one chunk or several).
C1_PutGetRoundTrip ==
    \A t \in Threads :
        (ret[t].op = "put_data" /\ ret[t].status = "Ok")
        => get_data(ret[t].addresses) = [status |-> "Ok", data |-> ret[t].data]

C1_Witness ==
    \E t \in Threads :
        /\ ret[t].op = "put_data" /\ ret[t].status = "Ok"
        /\ Len(ret[t].addresses) >= 2

\* C2: with put_chunk the only mutation, every byte string put is stored once
\* under one address: equal bytes always get the same address, the object
\* holds the bytes, a put of bytes put before writes nothing, and
\* stats().total_chunks is the number of distinct byte strings put.
C2_StoredExactlyOnce ==
    /\ stats.total_chunks = Cardinality({p.data : p \in puts})
    /\ \A p, q \in puts : p.data = q.data => p.address = q.address
    /\ \A p \in puts :
         has_chunk(p.address) /\ objects[chunk_path(p.address)] = p.data
    /\ \A t \in Threads :
         (ret[t].op = "put_chunk" /\ ret[t].status = "Ok" /\ ret[t].again)
         => (~ret[t].wrote
             /\ [data |-> ret[t].data, address |-> ret[t].address] \in puts)

C2_Witness ==
    \E t \in Threads :
        /\ ret[t].op = "put_chunk" /\ ret[t].status = "Ok" /\ ret[t].again
        /\ stats.total_chunks = 1

\* C3: at every step of a put_chunk, and after the process is killed at any
\* step, each file under objects/ holds complete bytes that hash to the
\* address its path is derived from; partial data is only ever in temp/.
C3_FinalAbsentOrComplete ==
    \A path \in DOMAIN objects :
        chunk_path(from_data(objects[path])) = path

C3_Witness ==
    /\ crashed /\ calls = 1
    /\ objects = <<>>
    /\ \E n \in DOMAIN temp : temp[n] = <<>>

\* C4: under every interleaving of put_chunk calls of several threads, the
\* object stored for an address hashes to that address.
C4_NoCorruptFinal ==
    \A a \in Addresses :
        has_chunk(a) => from_data(objects[chunk_path(a)]) = a

\* C5: when two threads have each returned from a put_chunk of the same
\* bytes, both returned Ok with the same address and the object at the final
\* path holds those bytes.
C5_SameBytesRaceOk ==
    \A t, u \in Threads :
        (/\ t # u
         /\ ret[t].op = "put_chunk" /\ ret[u].op = "put_chunk"
         /\ ret[t].data = ret[u].data)
        => /\ ret[t].status = "Ok" /\ ret[u].status = "Ok"
           /\ ret[t].address = ret[u].address
           /\ has_chunk(ret[t].address)
           /\ objects[chunk_path(ret[t].address)] = ret[t].data

\* C6: with verify_on_read on, an address whose object the store wrote (and
\* nothing overwrote from outside) reads back Ok, and whatever get_chunk
\* returns Ok hashes to the address asked for, also for overwritten objects.
C6_HasThenGetVerified ==
    config.verify_on_read =>
        \A a \in Addresses :
            /\ (has_chunk(a) /\ chunk_path(a) \notin corrupted)
               => get_chunk(a).status = "Ok"
            /\ get_chunk(a).status = "Ok" => from_data(get_chunk(a).data) = a

C6_Witness ==
    /\ config.verify_on_read
    /\ \E a, b \in Addresses :
         /\ has_chunk(a) /\ chunk_path(a) \notin corrupted
         /\ get_chunk(a).status = "Ok"
         /\ has_chunk(b) /\ get_chunk(b).status = "Corruption"

\* C7: a get_chunk call changes nothing in the store; it returns
\* ContentNotFound with the address when no object is at the path, and, with
\* verify_on_read on, Corruption with expected = the address and actual = the
\* address of the stored bytes when those do not hash to the address.
C7_GetChunkErrors ==
    [][\A t \in Threads :
         (calls' # calls /\ ret'[t].op = "get_chunk")
         => LET a == ret'[t].address
                path == chunk_path(a)
                r == ret'[t].result
            IN  /\ storeVars' = storeVars
                /\ path \notin DOMAIN objects
                   => r = [status |-> "ContentNotFound", address |-> a]
                /\ (/\ path \in DOMAIN objects
                    /\ config.verify_on_read
                    /\ from_data(objects[path]) # a)
                   => r = [status |-> "Corruption", expected |-> a,
                           actual |-> from_data(objects[path])]]_vars

C7_Witness ==
    \E t \in Threads :
        /\ ret[t].op = "get_chunk"
        /\ ret[t].result.status = "Corruption"
        /\ chunk_path(ret[t].address) \in corrupted

\* C8: when register_file has returned metadata m (the Ok return of an
\* ingest), get_file(m.id) is m, m carries the name, size and chunk count it
\* was given, and a FileRegistry constructed now over the same directory
\* loads and maps m.id to m.
C8_RegisterGetPersist ==
    \A t \in Threads :
        (ret[t].op = "put_file_with_registry" /\ ret[t].status = "Ok")
        => LET m == ret[t].meta
               restarted == FileRegistryNew
           IN  /\ get_file(m.id) = m
               /\ m.original_name \in Names
               /\ m.total_size = Len(ret[t].data)
               /\ m.chunk_count = Len(m.chunk_addresses)
               /\ restarted.status = "Ok"
               /\ m.id \in DOMAIN restarted.files
               /\ restarted.files[m.id] = m

C8_Witness ==
    \E t \in Threads :
        /\ ret[t].op = "put_file_with_registry" /\ ret[t].status = "Ok"
        /\ Len(ret[t].meta.chunk_addresses) >= 2
        /\ ret[t].meta.chunk_addresses[1] # ret[t].meta.chunk_addresses[2]

\* C9: when an ingest has returned an error, the in-memory map is what it
\* was when the call was made, and so is what a registry constructed over
\* the directory loads.
C9_FailedIngestLeavesNoEntry ==
    \A t \in Threads :
        (ret[t].op = "put_file_with_registry" /\ ret[t].status # "Ok")
        => /\ files = ret[t].pre.files
           /\ FileRegistryNew = LoadFrom(ret[t].pre.disk)

\* C10: at every step of an ingest, and after the process is killed at any
\* step, each chunk address of each entry of the in-memory map, and of each
\* entry a registry constructed over the directory would load, has its
\* object in the content store.
C10_EntriesReferenceStoredChunks ==
    /\ \A id \in DOMAIN files :
         \A i \in DOMAIN files[id].chunk_addresses :
            has_chunk(files[id].chunk_addresses[i])
    /\ LET on_disk == FileRegistryNew.files
       IN  \A id \in DOMAIN on_disk :
             \A i \in DOMAIN on_disk[id].chunk_addresses :
                has_chunk(on_disk[id].chunk_addresses[i])

C10_Witness ==
    /\ ~node
    /\ \E id \in DOMAIN FileRegistryNew.files :
         Len(FileRegistryNew.files[id].chunk_addresses) >= 2

\* C11: in every reachable state, also while register_file is saving and
\* after the process is killed at any step of it, file_registry.json is
\* absent, empty, or one complete serialization of a registry map, so that
\* constructing a FileRegistry over it never fails with CorruptedRegistry.
C11_RegistryFileAlwaysLoads ==
    \/ ~registry_file.exists
    \/ registry_file.content = <<>>
    \/ /\ FileRegistryNew.status = "Ok"
       /\ registry_file.content = SerializeRegistry(FileRegistryNew.files)

\* C12: for every file this Node has ingested Ok, whatever was ingested
\* after it: while the node is Running get_file_by_id of its id is Ok with
\* the bytes ingested, and a get_file_by_id call that was let through has
\* returned Ok and left exactly those bytes in the output path.
C12_IngestThenGetById ==
    \A file_id \in DOMAIN ingested :
        /\ (node /\ is_running)
           => NodeGetFileById(file_id) =
                 [status |-> "Ok", data |-> ingested[file_id]]
        /\ \A t \in Threads :
             (/\ ret[t].op = "get_file_by_id"
              /\ ret[t].arg = file_id
              /\ ret[t].status # "NotRunning")
             => /\ ret[t].status = "Ok"
                /\ ret[t].out = [exists |-> TRUE, content |-> ingested[file_id]]

C12_Witness ==
    \E t \in Threads :
        /\ ret[t].op = "get_file_by_id" /\ ret[t].status = "Ok"
        /\ ret[t].arg \in DOMAIN ingested
        /\ Len(files[ret[t].arg].chunk_addresses) >= 2
        /\ \E other \in DOMAIN ingested :
             /\ files[other].created_at > files[ret[t].arg].created_at
             /\ ingested[other] # ingested[ret[t].arg]

\* C13: for every registered metadata m, the look-up by m.short_id() can
\* return m and nothing else, whatever other files are registered.
C13_ShortIdFindsItsFile ==
    \A x \in DOMAIN files :
        get_file_by_short_id(short_id(files[x])) = {files[x]}

\* C14: every call of put_file, put_file_with_registry, get_file,
\* get_file_by_id or get_file_by_short_id made while the state is not
\* Running returns NotRunning at once, leaves the content store and the
\* registry (in memory and on disk) as they were, and a retrieval verb
\* leaves its output path absent.
C14_NotRunningRejects ==
    [][\A t \in Threads :
         (/\ ret'[t] # ret[t]
          /\ ret'[t].op \in {"put_file", "put_file_with_registry", "get_file",
                             "get_file_by_id", "get_file_by_short_id"}
          /\ state # "Running")
         => /\ ret'[t].status = "NotRunning"
            /\ th'[t].pc = "idle"
            /\ UNCHANGED <<storeVars, registryVars, state>>
            /\ ret'[t].op \in {"get_file", "get_file_by_id",
                               "get_file_by_short_id"}
               => ret'[t].out = NoOut]_vars

C14_Witness ==
    \E t \in Threads :
        /\ ret[t].op = "get_file_by_id" /\ ret[t].status = "NotRunning"
        /\ ret[t].arg \in DOMAIN files
        /\ get_data(files[ret[t].arg].chunk_addresses).status = "Ok"
        /\ state = "Stopped"

\* C15: a Node that Node::new has just returned is Stopped; once start() has
\* returned Ok the node is Running; once stop() has returned Ok it is Stopped
\* and not running; in every repetition.
C15_StartStopCycle ==
    \A t \in Threads :
        /\ (ret[t].op = "new" /\ ret[t].status = "Ok")
           => (state = "Stopped" /\ ~is_running)
        /\ (ret[t].op = "start" /\ ret[t].status = "Ok")
           => (state = "Running" /\ is_running)
        /\ (ret[t].op = "stop" /\ ret[t].status = "Ok")
           => (state = "Stopped" /\ ~is_running)

C15_Witness ==
    \E t \in Threads :
        /\ ret[t].op = "start" /\ ret[t].status = "Ok"
        /\ ret[t].from = "Stopped"
        /\ ingested # <<>>

\* C16: every change of the state of a constructed Node is one of
\* Stopped->Starting, Starting->Running, Running->Stopping,
\* Stopping->Stopped.
C16_OnlyLifecycleTransitions ==
    [][(node /\ node' /\ state' # state)
       => <<state, state'>> \in {<<"Stopped", "Starting">>,
                                 <<"Starting", "Running">>,
                                 <<"Running", "Stopping">>,
                                 <<"Stopping", "Stopped">>}]_vars

\* C17: once the state of a Node is Error, no step of that Node changes it.
C17_ErrorIsTerminal ==
    [][(node /\ node' /\ state = "Error") => state' = "Error"]_vars

\* C18 as stated: all Nodes built over the home directory have one id, and
\* save_to_file opens node_metadata.json only when it does not exist.
C18_IdentityNeverOverwritten ==
    [][/\ Cardinality(built') <= 1
       /\ IdentityOpen(MainThread, FALSE) => ~metadata_file.exists]_vars

\* C18 amended: all Nodes built over the home directory have one id;
\* save_to_file opens node_metadata.json only when it does not exist or does
\* not load, and an identity file that loads is never changed.
C18_LoadableIdentityKept ==
    [][/\ Cardinality(built') <= 1
       /\ IdentityOpen(MainThread, FALSE)
          => \/ ~metadata_file.exists
             \/ load_from_file(metadata_file.content).status # "Ok"
       /\ (/\ metadata_file.exists
           /\ load_from_file(metadata_file.content).status = "Ok")
          => metadata_file' = metadata_file]_vars

C18_Witness ==
    /\ node
    /\ drawn = 2
    /\ node_id = 2
    /\ built = {2}
    /\ ingested = <<>>
    /\ files # <<>>

\* C19: a remove_chunk(addr) that returns Ok returns true exactly when an
\* object was stored at addr when it was called; after it has_chunk(addr) is
\* false and get_chunk(addr) is ContentNotFound, and every object stored at
\* another path is there with the bytes it had.
C19_RemoveChunk ==
    [][\A t \in Threads, a \in Addresses :
         (/\ calls' # calls
          /\ ret'[t].op = "remove_chunk"
          /\ ret'[t].address = a
          /\ ret'[t].status = "Ok")
         => /\ ret'[t].removed = has_chunk(a)
            /\ ~has_chunk(a)'
            /\ get_chunk(a)' = [status |-> "ContentNotFound", address |-> a]
            /\ \A p \in DOMAIN objects \ {chunk_path(a)} :
                 p \in DOMAIN objects' /\ objects'[p] = objects[p]
            /\ DOMAIN objects' \subseteq DOMAIN objects]_vars

C19_Witness ==
    \E t \in Threads :
        /\ ret[t].op = "remove_chunk" /\ ret[t].status = "Ok"
        /\ ret[t].removed
        /\ objects # <<>>

\* C20: in every step of a content-store operation, each stored object stays
\* at its path with its bytes, unless the step is the remove_chunk of the
\* address of that path.
C20_ObjectsOnlyRemoved ==
    [][\A p \in DOMAIN objects :
         \/ p \in DOMAIN objects' /\ objects'[p] = objects[p]
         \/ \E t \in Threads :
              /\ calls' # calls
              /\ ret'[t].op = "remove_chunk"
              /\ chunk_path(ret'[t].address) = p]_vars

\* C21: put_data returns the chunk addresses in input order: the list has one
\* address per chunk of chunk_data(b) and its i-th address is the address of
\* the i-th chunk; get_data concatenates the chunks in the order of the
\* address list it is given.
C21_AddressesInChunkOrder ==
    /\ \A t \in Threads :
         (ret[t].op = "put_data" /\ ret[t].status = "Ok")
         => LET chunks == chunk_data(ret[t].data, config.chunk_config)
            IN  /\ Len(ret[t].addresses) = Len(chunks)
                /\ \A i \in 1..Len(chunks) :
                     ret[t].addresses[i] = from_data(chunks[i].data)
    /\ \A a, b \in {p.address : p \in puts} :
         (get_chunk(a).status = "Ok" /\ get_chunk(b).status = "Ok")
         => get_data(<<a, b>>) =
              [status |-> "Ok",
               data |-> get_chunk(a).data \o get_chunk(b).data]

C21_Witness ==
    \E t \in Threads :
        /\ ret[t].op = "put_data" /\ ret[t].status = "Ok"
        /\ Len(ret[t].addresses) = 2
        /\ ret[t].addresses[1] # ret[t].addresses[2]
        /\ get_data(ret[t].addresses).status = "Ok"

\* C22: when put_data fails with an I/O error while storing chunk k, the
\* chunks 0..k-1 it stored stay in the store with their bytes and nothing
\* that was there before is touched (no rollback); a retry of put_data on
\* the same bytes, when no call of it fails, returns Ok with the full ordered
\* address list and leaves exactly the objects of a run that never failed:
\* those held before the first attempt and the chunks of the input.
C22_FailedPutDataKeepsChunks ==
    /\ [](\A t \in Threads :
            ret[t].op = "put_data" =>
            LET chunks == chunk_data(ret[t].data, config.chunk_config)
                before == ret[t].attempt.before
                path(i) == chunk_path(from_data(chunks[i].data))
            IN  /\ \A p \in DOMAIN before :
                     p \in DOMAIN objects /\ objects[p] = before[p]
                /\ ret[t].status # "Ok" =>
                     /\ Len(ret[t].stored) < Len(chunks)
                     /\ \A i \in 1..Len(ret[t].stored) :
                          /\ ret[t].stored[i] = from_data(chunks[i].data)
                          /\ path(i) \in DOMAIN objects
                          /\ objects[path(i)] = chunks[i].data
                /\ (ret[t].status = "Ok" /\ ret[t].attempt.retry) =>
                     /\ ret[t].addresses =
                          [i \in 1..Len(chunks) |-> from_data(chunks[i].data)]
                     /\ DOMAIN objects =
                          DOMAIN before \cup {path(i) : i \in 1..Len(chunks)}
                     /\ \A i \in 1..Len(chunks) :
                          objects[path(i)] = chunks[i].data)
    /\ [][\A t \in Threads :
            (th[t].op = "put_data" /\ th[t].attempt.retry
             /\ PutChunkStep(t, FALSE))
            => ret'[t].status \in {NoRet.status, "Ok"}]_vars

C22_Witness ==
    \E t \in Threads :
        /\ ret[t].op = "put_data" /\ ret[t].status = "Ok"
        /\ ret[t].attempt.retry
        /\ Len(ret[t].attempt.kept) = 1
        /\ Len(ret[t].addresses) = 2
        /\ ret[t].addresses[1] # ret[t].addresses[2]

\* C23: remove_file(id) of a registered id, when it returns Ok, returns the
\* metadata that was registered; get_file(id) is then absent in memory and in
\* a registry loaded from the backing file, and every other entry is as it
\* was in both.  remove_file of an unregistered id returns None and leaves
\* the map and the backing file as they were.
C23_RemoveFile ==
    \A t \in Threads :
        (ret[t].op = "remove_file" /\ ret[t].status = "Ok")
        => LET file_id == ret[t].file_id
               pre == ret[t].pre
               reloaded == FileRegistryNew
           IN  IF file_id \in DOMAIN pre.files
               THEN /\ ret[t].some /\ ret[t].removed = pre.files[file_id]
                    /\ get_file(file_id) = NoMeta
                    /\ DOMAIN files = DOMAIN pre.files \ {file_id}
                    /\ \A other \in DOMAIN files :
                         files[other] = pre.files[other]
                    /\ reloaded.status = "Ok"
                    /\ reloaded.files = files
               ELSE /\ ~ret[t].some
                    /\ files = pre.files
                    /\ registry_file = pre.disk

C23_Witness ==
    \E t \in Threads :
        /\ ret[t].op = "remove_file" /\ ret[t].status = "Ok" /\ ret[t].some
        /\ Cardinality(DOMAIN ret[t].pre.files) = 2
        /\ Cardinality(DOMAIN files) = 1

C25_TotalSizeIsChunkBytes ==
    \A t \in Threads :
        (ret[t].op = "put_file_with_registry" /\ ret[t].status = "Ok")
        => LET m == ret[t].meta
               read == get_data(m.chunk_addresses)
           IN  /\ read.status = "Ok"
               /\ m.total_size = Len(read.data)

\* C26: for every input b, in content-defined and in fixed mode, the data of
\* the chunks chunk_data(b) returns, concatenated in order, is exactly b.
C26_ChunksReconstructInput ==
    \A t \in Threads :
        (ret[t].op = "chunk_data" /\ ret[t].status = "Ok")
        => reconstructed(ret[t].chunks) = ret[t].data

C26_Witness ==
    \E t \in Threads :
        /\ ret[t].op = "chunk_data" /\ ret[t].status = "Ok"
        /\ config.chunk_config.use_content_defined
        /\ Len(ret[t].chunks) >= 2
        /\ Len(ret[t].chunks[1].data) # Len(ret[t].chunks[2].data)

\* C27: in content-defined mode, for every configuration with
\* 0 < min_size <= target_size <= max_size and every input, chunk_data
\* returns a chunk sequence in which no chunk is larger than max_size and
\* no chunk but the last is smaller than min_size.
C27_ChunkSizeBounds ==
    \A t \in Threads :
        (ret[t].op = "chunk_data" /\ config.chunk_config.use_content_defined)
        => LET chunks == ret[t].chunks
               cfg == config.chunk_config
           IN  /\ ret[t].status = "Ok"
               /\ \A i \in 1..Len(chunks) :
                    /\ Len(chunks[i].data) <= cfg.max_size
                    /\ i < Len(chunks) => Len(chunks[i].data) >= cfg.min_size

\* C28: in fixed mode a non-empty input of length n is returned as
\* ceil(n / target_size) chunks, each of target_size bytes but the last,
\* which has between 1 and target_size bytes.
C28_FixedSizeChunks ==
    \A t \in Threads :
        (ret[t].op = "chunk_data" /\ ~config.chunk_config.use_content_defined
         /\ ret[t].data # <<>>)
        => LET chunks == ret[t].chunks
               n == Len(ret[t].data)
               target_size == config.chunk_config.target_size
           IN  /\ ret[t].status = "Ok"
               /\ Len(chunks) = (n + target_size - 1) \div target_size
               /\ \A i \in 1..(Len(chunks) - 1) :
                    Len(chunks[i].data) = target_size
               /\ Len(chunks[Len(chunks)].data) \in 1..target_size

C28_Witness ==
    \E t \in Threads :
        /\ ret[t].op = "chunk_data" /\ ~config.chunk_config.use_content_defined
        /\ Len(ret[t].chunks) = 2
        /\ config.chunk_config.target_size = 3
        /\ Len(ret[t].chunks[2].data) = 1
        /\ config.chunk_config.max_size > 3

\* C29: every non-empty input shorter than min_size is returned as exactly
\* one chunk whose data is the whole input.
C29_ShortInputOneChunk ==
    \A t \in Threads :
        (ret[t].op = "chunk_data" /\ ret[t].data # <<>>
         /\ Len(ret[t].data) < config.chunk_config.min_size)
        => /\ ret[t].status = "Ok"
           /\ Len(ret[t].chunks) = 1
           /\ ret[t].chunks[1].data = ret[t].data

\* C30: the empty input gives no chunk: chunk_data of the empty buffer is
\* the empty sequence, and put_data of empty bytes returns Ok with an empty
\* address list, at once, with objects/, temp/ and the shard directories
\* unchanged.
C30_EmptyInputNoChunks ==
    [][\A t \in Threads :
         CallPutData(t, <<>>)
         => /\ chunk_data(<<>>, config.chunk_config) = <<>>
            /\ ret'[t].op = "put_data" /\ ret'[t].status = "Ok"
            /\ ret'[t].data = <<>> /\ ret'[t].addresses = <<>>
            /\ th'[t].pc = "idle"
            /\ UNCHANGED storeVars]_vars

C30_Witness ==
    \E t \in Threads :
        /\ ret[t].op = "put_data" /\ ret[t].status = "Ok"
        /\ ret[t].data = <<>> /\ ret[t].addresses = <<>>
        /\ objects # <<>>
        /\ stats.total_chunks = 1

\* C31: for every ContentAddress a, of either algorithm, from_hex(a.to_hex())
\* succeeds and returns an address equal to a.
C31_HexRoundTrip ==
    \A t \in Threads :
        ret[t].op = "hex_roundtrip"
        => (ret[t].status = "Ok" /\ ret[t].parsed = ret[t].address)

C31_Witness ==
    \E t \in Threads :
        /\ ret[t].op = "hex_roundtrip" /\ ret[t].status = "Ok"
        /\ ret[t].address.algorithm = "Blake3"
        /\ ret[t].address.hash = 171
        /\ ret[t].str[8] # ret[t].str[9]

\* C32: from_hex of a known algorithm tag, a colon and a string of hex
\* digits whose length is not that of a digest (64 digits; here two) fails
\* with InvalidHashLength.
C32_WrongLengthIsInvalidHashLength ==
    \A t \in Threads :
        ret[t].op = "from_hex"
        => LET str == ret[t].str
               colons == {i \in DOMAIN str : str[i] = ":"}
               at == CHOOSE i \in colons : TRUE
               tag == SubSeq(str, 1, at - 1)
               rest == SubSeq(str, at + 1, Len(str))
           IN  (/\ Cardinality(colons) = 1
                /\ tag \in {AlgorithmName(a) : a \in HashAlgorithm}
                /\ \A i \in DOMAIN rest : HexVal(rest[i]) # -1
                /\ Len(rest) # 2 * HashLen)
               => ret[t].status = "InvalidHashLength"

\* C33: from_hex reports the first failing check in the order format,
\* algorithm, hex: InvalidFormat exactly when the string has not exactly one
\* colon; otherwise UnsupportedAlgorithm exactly when the tag is not sha256
\* or blake3, whatever follows the colon; otherwise InvalidHex when what
\* follows the colon holds a character that is no hex digit.
C33_ErrorOrder ==
    \A t \in Threads :
        ret[t].op = "from_hex"
        => LET str == ret[t].str
               colons == {i \in DOMAIN str : str[i] = ":"}
               at == CHOOSE i \in colons : TRUE
               tag == SubSeq(str, 1, at - 1)
               rest == SubSeq(str, at + 1, Len(str))
               known == tag \in {AlgorithmName(a) : a \in HashAlgorithm}
           IN  /\ ret[t].status = "InvalidFormat" <=> Cardinality(colons) # 1
               /\ Cardinality(colons) = 1 =>
                    /\ ret[t].status = "UnsupportedAlgorithm" <=> ~known
                    /\ (known /\ \E i \in DOMAIN rest : HexVal(rest[i]) = -1)
                         => ret[t].status = "InvalidHex"

C33_Witness ==
    \E t \in Threads :
        /\ ret[t].op = "from_hex"
        /\ ret[t].status = "UnsupportedAlgorithm"
        /\ Len(ret[t].str) >= 5
        /\ ret[t].str[Len(ret[t].str)] = "g"

\* C34: after any sequence of put_chunk, put_data and remove_chunk calls,
\* list_content() has exactly one entry for every stored object: its
\* address is the one put_chunk returned for the object (the directory name
\* and file name parse back to the address the path was derived from) and
\* its size is the number of bytes of the object.
C34_ListContentMatchesObjects ==
    LET listing == list_content
    IN  /\ Cardinality(listing.chunks) = Cardinality(DOMAIN objects)
        /\ listing.stats.total_chunks = Cardinality(DOMAIN objects)
        /\ \A e \in listing.chunks :
             /\ e.file_path = chunk_path(e.address)
             /\ e.file_path \in DOMAIN objects
             /\ e.size = Len(objects[e.file_path])
             /\ \E p \in puts : p.address = e.address /\ Len(p.data) = e.size
        /\ \A p \in puts :
             chunk_path(p.address) \in DOMAIN objects
             => Cardinality({e \in listing.chunks : e.address = p.address}) = 1

C34_Witness ==
    /\ Cardinality(list_content.chunks) = 1
    /\ Cardinality(puts) = 2
    /\ \E t \in Threads :
         /\ ret[t].op = "remove_chunk" /\ ret[t].status = "Ok"
         /\ ret[t].removed

\* C35: with content-defined chunking, for an input X and the input X' made
\* by inserting bytes at one position of X, the chunks that are on one side
\* only are bounded by a small constant whatever the length of X: the
\* distinct chunks of X and X' together are at most |chunks(X)| + 3.
C35_InsertionLocality ==
    \A t \in Threads :
        ret[t].op = "chunk_edited"
        => LET range(chunks) == {chunks[i] : i \in DOMAIN chunks}
           IN  Cardinality(range(ret[t].chunks)
                           \cup range(ret[t].edited_chunks))
                   <= Len(ret[t].chunks) + 3

\* C36: no two put_chunk calls write to the same temp path: the tmp_<nonce>
\* name a call has chosen differs from the name of every other call that is
\* under way, calls of other threads of the process included.
C36_TempPathsDiffer ==
    \A t1, t2 \in Threads :
        (/\ t1 # t2
         /\ th[t1].pc \in {"create_dir", "write_open", "write", "rename"}
         /\ th[t2].pc \in {"create_dir", "write_open", "write", "rename"})
        => th[t1].nonce # th[t2].nonce

\* C37: get_chunk verifies a stored object with the hash algorithm named in
\* the address asked for: when the object at the path of a blake3 address
\* holds bytes whose blake3 digest is the digest of the address, get_chunk
\* returns those bytes and not Corruption.
C37_VerifiesWithAddressAlgorithm ==
    \A t \in Threads :
        LET address == ret[t].address
            path == chunk_path(address)
        IN  (/\ ret[t].op = "get_chunk"
             /\ address.algorithm = "Blake3"
             /\ PathExists(path)
             /\ from_data_with_algorithm(objects[path], "Blake3") = address)
            => /\ ret[t].result.status = "Ok"
               /\ ret[t].result.data = objects[path]

\* C38: the store and the registry are independent frames: no step of a
\* registry operation (register_file, remove_file, save_registry) changes
\* the stored objects, so removing a registered file leaves all its chunks
\* stored; and no step of a content-store operation (put_chunk within
\* put_file, get_chunk, remove_chunk) changes the registry map or its file.
C38_FrameIndependence ==
    [][LET f == th[MainThread]
           registry_step ==
               \/ f.pc \in {"register", "save_open", "save_write"}
               \/ /\ f.pc = "idle"
                  /\ \/ th'[MainThread].op = "remove_file"
                     \/ /\ ret'[MainThread] # ret[MainThread]
                        /\ ret'[MainThread].op = "remove_file"
           store_step ==
               \/ f.pc \in {"put_chunk", "create_dir", "write_open",
                             "write", "rename"}
               \/ /\ f.pc = "idle"
                  /\ ret'[MainThread] # ret[MainThread]
                  /\ ret'[MainThread].op \in {"get_chunk", "remove_chunk"}
       IN  /\ registry_step => UNCHANGED <<objects, dirs, temp>>
           /\ store_step => UNCHANGED <<files, registry_file>>]_vars

C38_Witness ==
    \E t \in Threads :
        /\ ret[t].op = "remove_file" /\ ret[t].status = "Ok"
        /\ ret[t].some
        /\ ret[t].removed.chunk_addresses # <<>>
        /\ \A i \in DOMAIN ret[t].removed.chunk_addresses :
              PathExists(chunk_path(ret[t].removed.chunk_addresses[i]))
        /\ files # <<>>

\* C39: run_command(op) calls op with the node Running and the node is
\* Stopped when run_command returns, whether op returned Ok or an error;
\* what run_command returns is what op returned.
C39_RunCommand ==
    /\ [](\A t \in Threads :
            (cmd[t].stage = "start"
             /\ (CommandOperationDue(t)
                 \/ th[t].pc \notin {"idle", "starting"}))
            => state = "Running")
    /\ [][\A t \in Threads :
            /\ (cmd[t].stage = "start" /\ cmd'[t].stage = "stop")
               => cmd'[t].result = ret[t]
            /\ (cmd[t].stage = "stop" /\ ret'[t].op = "run_command")
               => /\ state' = "Stopped"
                  /\ ret'[t].result = cmd[t].result
                  /\ ret'[t].status = cmd[t].result.status]_vars

C39_Witness ==
    \E t \in Threads :
        /\ ret[t].op = "run_command"
        /\ ret[t].status # "Ok"
        /\ ret[t].result.op = "put_file_with_registry"
        /\ state = "Stopped"

\* C40 as stated: when a chunk of the address list is missing or corrupt,
\* ContentStore::get_file and the Node verb built on it return that error
\* and the output path is what it was before the call, absent or with its
\* old bytes.
C40_BadChunkLeavesOutput ==
    \A t \in Threads :
        (/\ ret[t].op \in {"store_get_file", "node_get_file"}
         /\ ret[t].status # "NotRunning"
         /\ ret[t].missing \/ ret[t].corrupt)
        => /\ ret[t].status \in {"ContentNotFound", "Corruption", "Storage"}
           /\ ret[t].out = ret[t].before

\* C40, amended: when a chunk of the address list is missing, or is corrupt
\* and the store verifies on read, get_file returns that error and the
\* output path is what it was before the call; whenever the output path
\* was written, every chunk of the list had been read.
C40_BadChunkLeavesOutputVerified ==
    \A t \in Threads :
        ret[t].op \in {"store_get_file", "node_get_file"}
        => /\ (/\ ret[t].status # "NotRunning"
                /\ \/ ret[t].missing
                   \/ ret[t].corrupt /\ config.verify_on_read)
              => /\ ret[t].status \in
                        {"ContentNotFound", "Corruption", "Storage"}
                 /\ ret[t].out = ret[t].before
           /\ ret[t].out # ret[t].before
              => /\ ret[t].status \in {"Ok", "Io", "Storage"}
                 /\ ~ret[t].missing
                 /\ ~(ret[t].corrupt /\ config.verify_on_read)

C40_Witness ==
    \E t \in Threads :
        /\ ret[t].op = "store_get_file"
        /\ Len(ret[t].addresses) = 2
        /\ PathExists(chunk_path(ret[t].addresses[1]))
        /\ ret[t].corrupt /\ ~ret[t].missing
        /\ config.verify_on_read
        /\ ret[t].status = "Corruption"
        /\ ret[t].before.exists
        /\ ret[t].out = ret[t].before

====
